---- MODULE Spec2Model ----
(***************************************************************************)
(* A model of the atom allocator and interning layer of libslax/libxi:     *)
(*   - the fixed slot pool (pa_fixed) as driven by tests/pa/pa_03.c,       *)
(*   - the workspace of libxi/xiworkspace.c: xi_workspace_open,            *)
(*     xi_namepool_atom, xi_ns_find and xi_get_attrib.                     *)
(* The pools themselves (pa_fixed, pa_istr, pa_pat) are not part of the    *)
(* sources at hand; they are modelled from their specified contract and    *)
(* from the way the callers use them.                                      *)
(***************************************************************************)
EXTENDS Integers, Sequences, FiniteSets, TLC

VARIABLES
    pfp,        \* pa_03.c: the fixed pool "fix1" under test
    trec,       \* pa_03.c: trec[slot], the record pointer kept per test slot
    t_last,     \* pa_03.c: the last command run and what it printed
    h_owned,    \* history: atom -> address and content its owner last wrote
    xwp,        \* xiworkspace.c: the workspace (xw_names, xw_names_index,
                \*   xw_ns_map, xw_ns_map_index)
    w_last,     \* the last xi_namepool_atom call and what it returned
    h_names,    \* history: <<text, atom>> of every successful create call
    h_ns,       \* history: <<prefix, uri, atom>> of every successful create
    r_call,     \* a xi_namepool_atom call between its lookup and its insert
    wo,         \* xi_workspace_open: its position, locals and the children
                \*   it opened and closed
    nodes,      \* the node pool xi_get_attrib reads: atom -> xi_node_t
    ga,         \* xi_get_attrib: its position, locals and return value
    n_last,     \* the last xi_ns_find call and what it returned
    n_call,     \* a xi_ns_find call between its lookup and its insert
    zp,         \* the nodeset-chunks pool, the atoms its user holds and the
                \*   last command run on it
    region,     \* the segment names in the directory of the mapped region
    dbg,        \* slaxdebugger.c: the debugger's globals
    eng,        \* who runs, and the calls the engine is in
    dh          \* history: what is remembered of a run of the debugger

vars_pa == <<pfp, trec, t_last, h_owned>>
vars_ws == <<xwp, w_last, h_names, h_ns, r_call>>

vars_wo == <<wo>>
vars_ga == <<nodes, ga>>
vars_nf == <<n_last, n_call>>
vars_zp == <<zp>>
vars_rg == <<region>>
vars_db == <<dbg, eng, dh>>

\* everything but the state of one part
rest_pa == <<vars_ws, vars_wo, vars_ga, vars_nf, vars_zp, vars_rg,
            vars_db>>
rest_ws == <<vars_pa, vars_wo, vars_ga, vars_nf, vars_zp, vars_rg,
            vars_db>>
rest_ns == <<vars_pa, vars_wo, vars_ga, vars_zp, vars_rg,
            vars_db>>
rest_wo == <<vars_pa, vars_ws, vars_ga, vars_nf, vars_zp, vars_rg,
            vars_db>>
rest_ga == <<vars_pa, vars_ws, vars_wo, vars_nf, vars_zp, vars_rg,
            vars_db>>

vars == <<pfp, trec, t_last, h_owned, xwp, w_last, h_names, h_ns, r_call,
          wo, nodes, ga, n_last, n_call, zp, region, dbg, eng, dh>>

----------------------------------------------------------------------------
(* Bounds of the model and program constants *)

\* log2 of the records per chunk ("shift" argument of pa_03)
TestShift == 1
\* hard ceiling of the pool ("max" argument of pa_03)
TestMaxAtoms == 3
\* number of test slots ("count" argument of pa_03)
TestCount == 2

\* XI_MAX_ATOMS, the ceiling of the workspace pools, scaled down: for the
\* string pool and its index, and for the namespace map and its index
MaxNames == 2
MaxNs == 2
\* XI_SHIFT, scaled down
WsShift == 1
\* how often the caller tries xi_workspace_open
MaxTries == 2
\* the longest child chain handed to xi_get_attrib
MaxChain == 2

PA_NULL_ATOM == 0
PA_PAT_MAXKEY == 256
\* uint16_t len
U16 == 65536
magic == 1583242846         \* 0x5e5e5e5e

Min(a, b) == IF a < b THEN a ELSE b

----------------------------------------------------------------------------
(* Fixed slot pool (pa_fixed), modelled from its contract.                 *)
(* A pool is a record:                                                     *)
(*   shift, max, width : parameters given to open (width = words/record)   *)
(*   zero              : the zero-on-allocate policy (PFF_INIT_ZERO)       *)
(*   base              : the chunk table, chunk index+1 -> page            *)
(*   brk               : number of pages obtained from the mapped region   *)
(*   free              : head of the free list                             *)
(*   mem               : page/offset -> record, a sequence of width words; *)
(*                       word 1 of a free record is the next free atom     *)

NullAddr == <<0, 0>>

ChunkSize(p) == 2 ^ p.shift

\* atom >> shift
ChunkOf(p, atom) == atom \div ChunkSize(p)

\* atom & mask
OffsetOf(p, atom) == atom % ChunkSize(p)

ZeroRec(width) == [i \in 1..width |-> 0]

pa_fixed_open(shift, width, max_atoms, zero) ==
    [shift |-> shift, width |-> width, max |-> max_atoms, zero |-> zero,
     base |-> <<>>, brk |-> 0, free |-> PA_NULL_ATOM,
     mem |-> [a \in {} |-> ZeroRec(width)]]

pa_fixed_atom_addr(p, atom) ==
    IF atom = PA_NULL_ATOM \/ ChunkOf(p, atom) + 1 > Len(p.base)
    THEN NullAddr
    ELSE <<p.base[ChunkOf(p, atom) + 1], OffsetOf(p, atom)>>

\* Append the page of one more chunk to the chunk table; older entries stay.
pa_fixed_base_append(base, page) == Append(base, page)

\* mutant: the first chunk starts at atom 0
pa_fixed_first_atom_zero(p) == Len(p.base) * ChunkSize(p)

\* The first atom of the chunk to come: atom 0 is the null atom and is
\* skipped.
pa_fixed_first_atom(p) ==
    IF Len(p.base) = 0 THEN 1 ELSE Len(p.base) * ChunkSize(p)

\* Growth: append one chunk and thread its atoms onto the (empty) free list.
\* Atom 0 is never issued; atoms above the ceiling do not exist.
pa_fixed_grow(p, mapok, ceiling) ==
    LET c     == Len(p.base)
        first == pa_fixed_first_atom(p)
        last  == Min((c + 1) * ChunkSize(p) - 1, ceiling)
        page  == p.brk + 1
        fresh == [a \in {page} \X (0 .. ChunkSize(p) - 1) |->
                    LET atom == c * ChunkSize(p) + a[2] IN
                    IF atom >= first /\ atom < last
                    THEN [ZeroRec(p.width) EXCEPT ![1] = atom + 1]
                    ELSE ZeroRec(p.width)]
    IN  IF first > ceiling THEN [pool |-> p, why |-> "Exhausted"]
        ELSE IF ~mapok THEN [pool |-> p, why |-> "CannotMap"]
        ELSE [pool |-> [p EXCEPT !.base = pa_fixed_base_append(@, page),
                                 !.brk = page,
                                 !.mem = fresh @@ @,
                                 !.free = first],
              why |-> "ok"]

\* mutant: the ceiling counts the null atom, so one atom fewer is issued
pa_fixed_alloc_setup_early(p, mapok) == pa_fixed_grow(p, mapok, p.max - 1)

\* mutant: a chunk that could not be mapped stays in the chunk table
pa_fixed_alloc_setup_partial(p, mapok) ==
    LET g == pa_fixed_grow(p, mapok, p.max)
    IN  IF g.why = "CannotMap"
        THEN [pool |-> [p EXCEPT !.base = pa_fixed_base_append(@, p.brk + 1)],
              why |-> "CannotMap"]
        ELSE g

\* The free list is empty: grow by one chunk, up to max_atoms atoms in all.
pa_fixed_alloc_setup(p, mapok) == pa_fixed_grow(p, mapok, p.max)

\* mutant: every allocation grows the pool first
pa_fixed_free_empty_always(p) == TRUE

\* the free list holds no atom
pa_fixed_free_empty(p) == p.free = PA_NULL_ATOM

\* Pop the head of the free list, growing first when the list is empty.
pa_fixed_alloc_atom(p, mapok) ==
    LET g    == IF pa_fixed_free_empty(p) THEN pa_fixed_alloc_setup(p, mapok)
                ELSE [pool |-> p, why |-> "ok"]
        q    == g.pool
        atom == q.free
        addr == pa_fixed_atom_addr(q, atom)
    IN  IF atom = PA_NULL_ATOM
        THEN [pool |-> q, atom |-> PA_NULL_ATOM, why |-> g.why]
        ELSE [pool |-> [q EXCEPT !.free = q.mem[addr][1],
                                 !.mem[addr] = IF q.zero THEN ZeroRec(q.width)
                                               ELSE @],
              atom |-> atom, why |-> "ok"]

\* Push the atom on the free list; the link is kept in the record's word 1.
pa_fixed_free_atom(p, atom) ==
    LET addr == pa_fixed_atom_addr(p, atom)
    IN  IF addr = NullAddr THEN p
        ELSE [p EXCEPT !.mem[addr][1] = p.free, !.free = atom]

\* The atoms reachable from the free list head.
RECURSIVE FreeChainFrom(_, _, _)
FreeChainFrom(p, atom, n) ==
    IF atom = PA_NULL_ATOM \/ n = 0 \/ pa_fixed_atom_addr(p, atom) = NullAddr
    THEN {}
    ELSE {atom} \cup
         FreeChainFrom(p, p.mem[pa_fixed_atom_addr(p, atom)][1], n - 1)

FreeChain(p) == FreeChainFrom(p, p.free, p.max + 1)

----------------------------------------------------------------------------
(* tests/pa/pa_03.c: test_t is <<t_magic, t_id, t_slot, t_val>>            *)

TestWidth == 4
TestSlots == 0 .. TestCount - 1

test_rec(atom, slot) == <<magic, atom, slot, -1>>

\* what do_dump prints for one slot
do_dump(slot) ==
    LET tp == trec[slot] IN
    IF tp = NullAddr THEN {}
    ELSE (IF pfp.mem[tp][1] # magic THEN {"bad-magic"} ELSE {})
         \cup (IF pfp.mem[tp][3] # slot THEN {"bad-slot"} ELSE {})
         \cup (IF pfp.mem[tp][4] # -1 THEN {"bad-value"} ELSE {})

\* mutant: the 'f' command forgets to clear trec[slot]
test_free_slot_keep(slot) == trec

\* trec[slot] after the 'f' command
test_free_slot(slot) == [trec EXCEPT ![slot] = NullAddr]

\* case 'a'
TestAlloc(slot, mapok) ==
    LET r  == pa_fixed_alloc_atom(pfp, mapok)
        tp == pa_fixed_atom_addr(r.pool, r.atom)
    IN  /\ trec' = [trec EXCEPT ![slot] = tp]
        /\ pfp' = IF tp # NullAddr
                  THEN [r.pool EXCEPT !.mem[tp] = test_rec(r.atom, slot)]
                  ELSE r.pool
        /\ t_last' = [op |-> "a", slot |-> slot, atom |-> r.atom,
                      why |-> r.why]
        /\ h_owned' = IF tp # NullAddr
                      THEN (r.atom :> [addr |-> tp,
                                       rec |-> test_rec(r.atom, slot)])
                           @@ h_owned
                      ELSE h_owned

\* case 'f'
TestFree(slot) ==
    LET tp   == trec[slot]
        atom == pfp.mem[tp][2]
    IN  IF tp # NullAddr
        THEN /\ pfp' = pa_fixed_free_atom(pfp, atom)
             /\ trec' = test_free_slot(slot)
             /\ t_last' = [op |-> "f", slot |-> slot, atom |-> atom,
                           why |-> "ok"]
             /\ h_owned' = [a \in DOMAIN h_owned \ {atom} |-> h_owned[a]]
        ELSE /\ t_last' = [op |-> "f", slot |-> slot, atom |-> PA_NULL_ATOM,
                           why |-> "free"]
             /\ UNCHANGED <<pfp, trec, h_owned>>

----------------------------------------------------------------------------
(* Interned string pool (pa_istr) and patricia index (pa_pat), modelled    *)
(* from their contract.                                                    *)
(*   istr: strs[atom] is the byte string stored under the atom             *)
(*   pat : nodes is the set of [data, len] entries; the key of an entry is *)
(*         read through the key function from the pool that owns the data  *)

pa_istr_open(max_atoms) == [max |-> max_atoms, strs |-> <<>>]

\* mutant: a full pool stores the string over its last one
pa_istr_string_wrap(pip, data, ok) ==
    IF ~ok \/ pip.max = 0
    THEN [pool |-> pip, atom |-> PA_NULL_ATOM]
    ELSE IF Len(pip.strs) >= pip.max
    THEN [pool |-> [pip EXCEPT !.strs[Len(pip.strs)] = data],
          atom |-> Len(pip.strs)]
    ELSE [pool |-> [pip EXCEPT !.strs = Append(@, data)],
          atom |-> Len(pip.strs) + 1]

\* Append one string; no deduplication. ok = the pool could get the room.
pa_istr_string(pip, data, ok) ==
    IF ~ok \/ Len(pip.strs) >= pip.max
    THEN [pool |-> pip, atom |-> PA_NULL_ATOM]
    ELSE [pool |-> [pip EXCEPT !.strs = Append(@, data)],
          atom |-> Len(pip.strs) + 1]

\* The stored bytes of a string, with the terminating NUL.
pa_istr_atom_string(pip, atom) == pip.strs[atom] \o <<0>>

pa_pat_open(maxkey, max_atoms) ==
    [maxkey |-> maxkey, max |-> max_atoms, nodes |-> {}]

\* the first len bytes of a byte sequence
KeyBytes(bytes, len) == SubSeq(bytes, 1, Min(len, Len(bytes)))

\* The entries whose key equals the len bytes of key; keyfn maps a data atom
\* to the bytes its key starts at.
pa_pat_match(pp, len, key, keyfn) ==
    {n \in pp.nodes : n.len = len /\ KeyBytes(keyfn[n.data], len) = key}

pa_pat_get_atom(pp, len, key, keyfn) ==
    IF len = 0 \/ len > pp.maxkey \/ pa_pat_match(pp, len, key, keyfn) = {}
    THEN PA_NULL_ATOM
    ELSE (CHOOSE n \in pa_pat_match(pp, len, key, keyfn) : TRUE).data

\* Insert datom under the len bytes its key function yields. Fails on a key
\* that is present ("dup") and when no node can be allocated ("nomem"); the
\* caller sees only the boolean.
pa_pat_add(pp, datom, len, keyfn, ok) ==
    IF len = 0 \/ len > pp.maxkey
    THEN [pat |-> pp, ok |-> FALSE, why |-> "toolong"]
    ELSE IF pa_pat_match(pp, len, KeyBytes(keyfn[datom], len), keyfn) # {}
    THEN [pat |-> pp, ok |-> FALSE, why |-> "dup"]
    ELSE IF ~ok \/ Cardinality(pp.nodes) >= pp.max
    THEN [pat |-> pp, ok |-> FALSE, why |-> "nomem"]
    ELSE [pat |-> [pp EXCEPT !.nodes = @ \cup {[data |-> datom, len |-> len]}],
          ok |-> TRUE, why |-> "ok"]

----------------------------------------------------------------------------
(* libxi/xiworkspace.c: name and namespace interning                       *)

\* The texts handed to xi_namepool_atom, as byte strings: "a", "b" and "aa"
\* (one text is a proper prefix of another).
Texts == {<<97>>, <<98>>, <<97, 97>>}

\* n bytes b
Rep(b, n) == [i \in 1 .. n |-> b]

\* Texts around the limits of xi_namepool_atom: strlen + 1 is one more than
\* PA_PAT_MAXKEY, is 65536 (which a uint16_t holds as 0), or is 65538 (held
\* as 2); and two short texts.
LongTexts == {<<97>>, <<97, 97>>, Rep(97, PA_PAT_MAXKEY), Rep(97, U16 - 1),
              Rep(97, U16 + 1)}

\* the NULL pointer, kept apart from every byte string (bytes are >= 0)
NULL == <<-1>>
\* prefix and uri arguments: "a", "b" and "u", the empty string or a NULL
\* pointer
NsPrefixes == {<<97>>, <<98>>, <<>>, NULL}
NsUris == {<<117>>, <<>>, NULL}

\* What the mapped region lets each pool do during one call: whether the
\* string pool, the names index, the namespace map and the namespace index
\* can get the room they ask for. At most one of them fails in one call.
EnvFails(e) ==
    (IF e.istr_ok THEN 0 ELSE 1) + (IF e.pat_ok THEN 0 ELSE 1)
    + (IF e.map_ok THEN 0 ELSE 1) + (IF e.nspat_ok THEN 0 ELSE 1)

Envs == {e \in [istr_ok : BOOLEAN, pat_ok : BOOLEAN, map_ok : BOOLEAN,
                nspat_ok : BOOLEAN] : EnvFails(e) <= 1}

\* the part of it a name call depends on
NameEnvs == {e \in Envs : e.map_ok /\ e.nspat_ok}

\* xi_ns_map_t is <<prefix atom, uri atom>>
NsWidth == 2

\* the pools the workspace holds once xi_workspace_open has succeeded
xi_workspace(max_names, max_ns) ==
    [xw_names        |-> pa_istr_open(max_names),
     xw_names_index  |-> pa_pat_open(PA_PAT_MAXKEY, max_names),
     xw_ns_map       |-> pa_fixed_open(WsShift, NsWidth, max_ns, FALSE),
     xw_ns_map_index |-> pa_pat_open(PA_PAT_MAXKEY, max_ns)]

\* pa_pat_istr_key_func: the key of a names_index entry is its stored string
pa_pat_istr_key_func(pip) ==
    [a \in 1 .. Len(pip.strs) |-> pa_istr_atom_string(pip, a)]

\* xi_ns_key_func: the key of a ns_map_index entry is the raw pair record
xi_ns_key_func(pfx) ==
    [a \in 1 .. pfx.max |->
        IF pa_fixed_atom_addr(pfx, a) = NullAddr THEN <<>>
        ELSE pfx.mem[pa_fixed_atom_addr(pfx, a)]]

\* uint16_t len = strlen(data) + 1
name_len(data) == (Len(data) + 1) % U16

\* line 215: the lookup of the text (with its NUL) in the names index
xi_namepool_lookup(w, data) ==
    pa_pat_get_atom(w.xw_names_index, name_len(data),
                    KeyBytes(data \o <<0>>, name_len(data)),
                    pa_pat_istr_key_func(w.xw_names))

\* lines 216-227, given the datom the lookup of line 215 found. The atom
\* returned is the one just stored, whether or not pa_pat_add took it.
\* (Line 220 tests "atom", which is not declared yet; it is read as the istr
\* atom just obtained.)
xi_namepool_create(w, data, createp, datom, env) ==
    IF datom = PA_NULL_ATOM /\ createp
    THEN LET s == pa_istr_string(w.xw_names, data, env.istr_ok)
             a == pa_pat_add(w.xw_names_index, s.atom, name_len(data),
                             pa_pat_istr_key_func(s.pool), env.pat_ok)
         IN  IF s.atom = PA_NULL_ATOM
             THEN [w |-> w, atom |-> PA_NULL_ATOM, stored |-> PA_NULL_ATOM,
                   add |-> "none", log |-> "namepool create key failed"]
             ELSE [w |-> [w EXCEPT !.xw_names = s.pool,
                                   !.xw_names_index = a.pat],
                   atom |-> s.atom,
                   stored |-> s.atom,
                   add |-> a.why,
                   log |-> IF a.ok THEN "" ELSE "duplicate key"]
    ELSE [w |-> w, atom |-> datom, stored |-> PA_NULL_ATOM, add |-> "none",
          log |-> ""]

\* mutant: the create flag is not looked at
xi_namepool_atom_create(w, data, createp, env) ==
    xi_namepool_create(w, data, TRUE, xi_namepool_lookup(w, data), env)

xi_namepool_atom(w, data, createp, env) ==
    xi_namepool_create(w, data, createp, xi_namepool_lookup(w, data), env)

\* mutant: only a NULL pointer counts as empty
ns_nonempty_null(str) == str # NULL

\* prefix != NULL && *prefix != '\0'
ns_nonempty(str) == str # NULL /\ str # <<>>

\* xi_ns_map_t ns = { prefix_atom, uri_atom }
xi_ns_pair(prefix_atom, uri_atom) == <<prefix_atom, uri_atom>>

\* lines 301-303: the lookup of the raw pair in the namespace index
xi_ns_lookup(w, ns) ==
    pa_pat_get_atom(w.xw_ns_map_index, NsWidth, ns,
                    xi_ns_key_func(w.xw_ns_map))

\* mutant: the record of a failed insert stays allocated
xi_ns_map_free_leak(pool, atom) == pool

\* line 316: the record goes back on the free list of the namespace-map pool
xi_ns_map_free(pool, atom) == pa_fixed_free_atom(pool, atom)

\* lines 304-324, given the atom the lookup of line 303 found. A failed
\* pa_pat_add frees the record again and the call returns the null atom.
xi_ns_create(w, ns, atom, createp, env) ==
    IF atom = PA_NULL_ATOM /\ createp
    THEN LET r    == pa_fixed_alloc_atom(w.xw_ns_map, env.map_ok)
             nsp  == pa_fixed_atom_addr(r.pool, r.atom)
             pool == [r.pool EXCEPT !.mem[nsp] = ns]
             a    == pa_pat_add(w.xw_ns_map_index, r.atom, NsWidth,
                                xi_ns_key_func(pool), env.nspat_ok)
         IN  IF nsp = NullAddr
             THEN [w |-> [w EXCEPT !.xw_ns_map = r.pool],
                   atom |-> PA_NULL_ATOM, add |-> "none",
                   log |-> "namespace create key failed"]
             ELSE IF ~a.ok
             THEN [w |-> [w EXCEPT !.xw_ns_map =
                                     xi_ns_map_free(pool, r.atom)],
                   atom |-> PA_NULL_ATOM, add |-> a.why,
                   log |-> "duplicate key failure for namespace"]
             ELSE [w |-> [w EXCEPT !.xw_ns_map = pool,
                                   !.xw_ns_map_index = a.pat],
                   atom |-> r.atom, add |-> a.why, log |-> ""]
    ELSE [w |-> w, atom |-> atom, add |-> "none", log |-> ""]

\* lines 301-324, given the workspace after the two name calls
xi_ns_find_pair(w, prefix_atom, uri_atom, createp, env) ==
    xi_ns_create(w, xi_ns_pair(prefix_atom, uri_atom),
                 xi_ns_lookup(w, xi_ns_pair(prefix_atom, uri_atom)),
                 createp, env)

\* lines 287-299: the two name calls; ok is FALSE when one of them returned
\* the null atom, and the uri is not interned when the prefix failed
xi_ns_names(w, prefix, uri, env) ==
    LET p  == IF ns_nonempty(prefix)
              THEN xi_namepool_atom(w, prefix, TRUE, env)
              ELSE [w |-> w, atom |-> PA_NULL_ATOM]
        u  == IF ns_nonempty(uri)
              THEN xi_namepool_atom(p.w, uri, TRUE, env)
              ELSE [w |-> p.w, atom |-> PA_NULL_ATOM]
    IN  IF ns_nonempty(prefix) /\ p.atom = PA_NULL_ATOM
        THEN [w |-> p.w, ok |-> FALSE, prefix_atom |-> PA_NULL_ATOM,
              uri_atom |-> PA_NULL_ATOM]
        ELSE IF ns_nonempty(uri) /\ u.atom = PA_NULL_ATOM
        THEN [w |-> u.w, ok |-> FALSE, prefix_atom |-> p.atom,
              uri_atom |-> PA_NULL_ATOM]
        ELSE [w |-> u.w, ok |-> TRUE, prefix_atom |-> p.atom,
              uri_atom |-> u.atom]

xi_ns_find(w, prefix, uri, createp, env) ==
    LET n == xi_ns_names(w, prefix, uri, env)
    IN  IF ~n.ok
        THEN [w |-> n.w, atom |-> PA_NULL_ATOM, add |-> "none", log |-> ""]
        ELSE xi_ns_find_pair(n.w, n.prefix_atom, n.uri_atom, createp, env)

\* a prefix or uri as the text it stands for: NULL and "" are both empty
NsText(str) == IF str = NULL THEN <<>> ELSE str

\* a caller interns a name
NameAtom(data, createp, env) ==
    LET r == xi_namepool_atom(xwp, data, createp, env)
    IN  /\ r_call.pc = "idle"
        /\ xwp' = r.w
        /\ w_last' = [op |-> "name", data |-> data,
                      createp |-> createp, atom |-> r.atom, add |-> r.add,
                      log |-> r.log]
        /\ h_names' = IF createp /\ r.atom # PA_NULL_ATOM
                      THEN h_names \cup {<<data, r.atom>>} ELSE h_names
        /\ UNCHANGED <<h_ns, r_call>>

\* a caller interns a namespace pair
NsFind(prefix, uri, createp, env) ==
    LET r == xi_ns_find(xwp, prefix, uri, createp, env)
    IN  /\ r_call.pc = "idle"
        /\ xwp' = r.w
        /\ h_ns' = IF createp /\ r.atom # PA_NULL_ATOM
                   THEN h_ns \cup {<<NsText(prefix), NsText(uri), r.atom>>}
                   ELSE h_ns
        /\ UNCHANGED <<w_last, h_names, r_call>>

\* what a caller of xi_ns_find saw of its call
ns_seen(prefix, uri, createp, r) ==
    [op |-> "ns", prefix |-> prefix, uri |-> uri, createp |-> createp,
     atom |-> r.atom, add |-> r.add, log |-> r.log]

\* a caller interns a namespace pair and keeps what the call returned
NsFindSeen(prefix, uri, createp, env) ==
    /\ NsFind(prefix, uri, createp, env)
    /\ n_last' = ns_seen(prefix, uri, createp,
                         xi_ns_find(xwp, prefix, uri, createp, env))
    /\ UNCHANGED n_call

\* A call of xi_ns_find taken in two steps, so that another writer of the
\* same mapped region can run between its lookup (line 303) and its insert
\* (line 315). A call whose name calls fail returns at once.
NsRaceLookup(prefix, uri, createp, env) ==
    LET n == xi_ns_names(xwp, prefix, uri, env)
    IN  /\ n_call.pc = "idle"
        /\ xwp' = n.w
        /\ IF n.ok
           THEN /\ n_call' = [pc |-> "looked", prefix |-> prefix,
                              uri |-> uri, createp |-> createp,
                              prefix_atom |-> n.prefix_atom,
                              uri_atom |-> n.uri_atom,
                              atom |-> xi_ns_lookup(n.w,
                                          xi_ns_pair(n.prefix_atom,
                                                     n.uri_atom))]
                /\ UNCHANGED n_last
           ELSE /\ n_last' = ns_seen(prefix, uri, createp,
                                     [atom |-> PA_NULL_ATOM, add |-> "none",
                                      log |-> ""])
                /\ UNCHANGED n_call
        /\ UNCHANGED <<w_last, h_names, h_ns, r_call>>

NsRaceFinish(env) ==
    LET r == xi_ns_create(xwp, xi_ns_pair(n_call.prefix_atom,
                                          n_call.uri_atom),
                          n_call.atom, n_call.createp, env)
    IN  /\ n_call.pc = "looked"
        /\ xwp' = r.w
        /\ n_last' = ns_seen(n_call.prefix, n_call.uri, n_call.createp, r)
        /\ h_ns' = IF n_call.createp /\ r.atom # PA_NULL_ATOM
                   THEN h_ns \cup {<<NsText(n_call.prefix),
                                     NsText(n_call.uri), r.atom>>}
                   ELSE h_ns
        /\ n_call' = [n_call EXCEPT !.pc = "idle"]
        /\ UNCHANGED <<w_last, h_names, r_call>>

\* the other writer interns a namespace pair (a whole call)
NsRaceOther(prefix, uri, env) ==
    NsFind(prefix, uri, TRUE, env) /\ UNCHANGED <<n_last, n_call>>

\* A call of xi_namepool_atom taken in two steps, so that another writer of
\* the same mapped region can run between its lookup and its insert.
RaceLookup(data, createp) ==
    /\ r_call.pc = "idle"
    /\ r_call' = [pc |-> "looked", data |-> data, createp |-> createp,
                  datom |-> xi_namepool_lookup(xwp, data)]
    /\ UNCHANGED <<xwp, w_last, h_names, h_ns>>

RaceFinish(env) ==
    LET r == xi_namepool_create(xwp, r_call.data, r_call.createp,
                                r_call.datom, env)
    IN  /\ r_call.pc = "looked"
        /\ xwp' = r.w
        /\ w_last' = [op |-> "name", data |-> r_call.data,
                      createp |-> r_call.createp, atom |-> r.atom,
                      add |-> r.add, log |-> r.log]
        /\ h_names' = IF r_call.createp /\ r.atom # PA_NULL_ATOM
                      THEN h_names \cup {<<r_call.data, r.atom>>}
                      ELSE h_names
        /\ r_call' = [r_call EXCEPT !.pc = "idle"]
        /\ UNCHANGED h_ns

\* the other writer interns a name (a whole call)
RaceOther(data, env) ==
    LET r == xi_namepool_atom(xwp, data, TRUE, env)
    IN  /\ xwp' = r.w
        /\ h_names' = IF r.atom # PA_NULL_ATOM
                      THEN h_names \cup {<<data, r.atom>>} ELSE h_names
        /\ UNCHANGED <<w_last, h_ns, r_call>>

----------------------------------------------------------------------------
(* libxi/xiworkspace.c: xi_workspace_open                                  *)
(* wo.loc holds the locals (a child handle or "NULL"), wo.open the         *)
(* children that are open, wo.opens / wo.closes how often each child was   *)
(* opened and closed during this call.                                     *)

Children == {"names.data", "names.index", "namespaces.data",
             "namespaces.index", "nodes", "data", "nodeset-chunks",
             "nodeset-info"}

Locals == {"names", "names_index", "ns_map", "ns_map_index", "pip", "pap",
           "ppp", "nodes", "nodeset_chunks", "nodeset_info", "workp"}

\* the order of the closes after the fail label (lines 121-140)
FailOrder == <<"nodeset_chunks", "nodeset_info", "pap", "pip", "ppp",
               "nodes", "names", "names_index", "ns_map", "ns_map_index">>

wo_start(try) ==
    [pc |-> "names", fi |-> 1, loc |-> [l \in Locals |-> "NULL"],
     open |-> {}, opens |-> [c \in Children |-> 0],
     closes |-> [c \in Children |-> 0], ret |-> "none", try |-> try]

\* pa_istr_open, pa_pat_open, pa_fixed_open, pa_arb_open: the child is open
\* when the open succeeds
pa_open(o, child, ok) ==
    IF ok THEN [o EXCEPT !.open = @ \cup {child}, !.opens[child] = @ + 1]
    ELSE o

\* pa_istr_close, pa_pat_close, pa_fixed_close, pa_arb_close
pa_close(o, child) ==
    [o EXCEPT !.open = @ \ {child}, !.closes[child] = @ + 1]

\* mutant: the first child is left open when the second open fails
xi_open_undo_none(o, child) == o

\* the second open of xi_namepool_open / xi_ns_open failed (lines 162-165,
\* 194-197): the first child is closed again
xi_open_undo(o, child) == pa_close(o, child)

\* xi_namepool_open and xi_ns_open: open the data pool, then its index; the
\* two handles are handed back only when both opens succeeded
xi_pair_open(o, data, index, datap, indexp, ok1, ok2) ==
    IF ~ok1 THEN o
    ELSE IF ~ok2 THEN xi_open_undo(pa_open(o, data, TRUE), data)
    ELSE [pa_open(pa_open(o, data, TRUE), index, TRUE)
             EXCEPT !.loc[datap] = data, !.loc[indexp] = index]

xi_namepool_open(o, ok1, ok2) ==
    xi_pair_open(o, "names.data", "names.index", "names", "names_index",
                 ok1, ok2)

xi_ns_open(o, ok1, ok2) ==
    xi_pair_open(o, "namespaces.data", "namespaces.index", "ns_map",
                 "ns_map_index", ok1, ok2)

\* one "x = open(...); if (x == NULL) goto fail;" of xi_workspace_open
wo_open(o, local, child, ok, next) ==
    IF ok
    THEN [pa_open(o, child, TRUE) EXCEPT !.loc[local] = child, !.pc = next]
    ELSE [o EXCEPT !.pc = "fail"]

\* lines 67-70
WoNames(ok1, ok2) ==
    /\ wo.pc = "names"
    /\ wo' = LET o == xi_namepool_open(wo, ok1, ok2)
             IN  [o EXCEPT !.pc = IF o.loc["names"] = "NULL" THEN "fail"
                                  ELSE "namespaces"]

\* lines 72-75
WoNamespaces(ok1, ok2) ==
    /\ wo.pc = "namespaces"
    /\ wo' = LET o == xi_ns_open(wo, ok1, ok2)
             IN  [o EXCEPT !.pc = IF o.loc["ns_map"] = "NULL" THEN "fail"
                                  ELSE "nodes"]

\* lines 77-80
WoNodes(ok) ==
    wo.pc = "nodes" /\ wo' = wo_open(wo, "nodes", "nodes", ok, "data")

\* lines 82-84
WoData(ok) ==
    wo.pc = "data" /\ wo' = wo_open(wo, "pap", "data", ok, "chunks")

\* lines 86-93
WoChunks(ok) ==
    /\ wo.pc = "chunks"
    /\ wo' = wo_open(wo, "nodeset_chunks", "nodeset-chunks", ok, "info")

\* lines 95-102
WoInfo(ok) ==
    /\ wo.pc = "info"
    /\ wo' = wo_open(wo, "nodeset_info", "nodeset-info", ok, "calloc")

\* lines 104-118
WoCalloc(ok) ==
    /\ wo.pc = "calloc"
    /\ wo' = IF ok THEN [wo EXCEPT !.loc["workp"] = "workp", !.pc = "done",
                                   !.ret = "workp"]
             ELSE [wo EXCEPT !.pc = "fail"]

\* lines 120-142: one "if (x != NULL) close(x);" per step, then return NULL
WoFail ==
    /\ wo.pc = "fail"
    /\ wo' = IF wo.fi > Len(FailOrder)
             THEN [wo EXCEPT !.pc = "ret_null", !.ret = "NULL"]
             ELSE LET h == wo.loc[FailOrder[wo.fi]]
                  IN  [(IF h # "NULL" THEN pa_close(wo, h) ELSE wo)
                          EXCEPT !.fi = @ + 1]

\* the caller tries the same base name again after a failed open
WoRetry ==
    /\ wo.pc = "ret_null" /\ wo.try < MaxTries
    /\ wo' = wo_start(wo.try + 1)

----------------------------------------------------------------------------
(* libxi/xiworkspace.c: xi_get_attrib                                      *)
(* The starting node is atom 1; its children chain is atoms 2, 3, ...      *)
(* linked by xn_next. A chain record is an attribute or an element, named  *)
(* 1 or 2, at depth 0, 1 or 2 (the starting node is at depth 1), and its   *)
(* contents atom tells the records apart.                                  *)

StartDepth == 1
ChainAtoms(len) == 2 .. len + 1

NodeTables ==
    UNION {
      {[a \in {1} \cup ChainAtoms(len) |->
          IF a = 1
          THEN [xn_type |-> "ELT", xn_name |-> 1, xn_depth |-> StartDepth,
                xn_contents |-> IF len = 0 THEN PA_NULL_ATOM ELSE 2,
                xn_next |-> PA_NULL_ATOM, xn_flags |-> flags]
          ELSE [xn_type |-> kind[a][1], xn_name |-> kind[a][2],
                xn_depth |-> kind[a][3], xn_contents |-> 10 + a,
                xn_next |-> IF a = len + 1 THEN PA_NULL_ATOM ELSE a + 1,
                xn_flags |-> {}]] :
        flags \in {{}, {"ATTRIBS_PRESENT"}},
        kind \in [ChainAtoms(len) ->
                    {"ATTRIB", "ELT"} \X {1, 2} \X {0, 1, 2}]} :
      len \in 0 .. MaxChain}

\* xi_node_addr: the node record of an atom; NULL for an atom the pool does
\* not hold
xi_node_addr(atom) == nodes[atom]
xi_node_addr_null(atom) == atom \notin DOMAIN nodes

\* mutant: the flag is not looked at
node_has_attribs_always(nodep) == TRUE

\* line 237: the node carries the attributes-present flag
node_has_attribs(nodep) == "ATTRIBS_PRESENT" \in nodep.xn_flags

\* mutant: only a smaller depth ends the children
end_of_children_lt(nodep, depth) == nodep.xn_depth < depth

\* line 251: found end of children
end_of_children(nodep, depth) == nodep.xn_depth <= depth

\* mutant: every record is compared
is_attrib_any(nodep) == TRUE

\* line 254: only attributes are compared
is_attrib(nodep) == nodep.xn_type = "ATTRIB"

\* mutant: the loop does not advance
ga_advance_stay(node_atom, nodep) == node_atom

\* line 246: node_atom = nodep->xn_next, nodep being the record just visited
ga_advance(node_atom, nodep) == nodep.xn_next

\* lines 235-245: up to the first test of the loop
GaEnter ==
    /\ ga.pc = "enter"
    /\ ga' = IF ~node_has_attribs(nodes[ga.nodep])
             THEN [ga EXCEPT !.pc = "done", !.ret = PA_NULL_ATOM]
             ELSE [ga EXCEPT !.pc = "loop",
                             !.depth = nodes[ga.nodep].xn_depth,
                             !.node_atom = nodes[ga.nodep].xn_contents]
    /\ UNCHANGED nodes

\* lines 245-263: one round of the loop, or the return after it
GaLoop ==
    /\ ga.pc = "loop"
    /\ ga' = IF ga.node_atom = PA_NULL_ATOM
                \/ xi_node_addr_null(ga.node_atom)
             THEN [ga EXCEPT !.pc = "done", !.ret = PA_NULL_ATOM]
             ELSE LET nodep == xi_node_addr(ga.node_atom)
                      seen  == Append(ga.visited, ga.node_atom)
                  IN  IF end_of_children(nodep, ga.depth)
                      THEN [ga EXCEPT !.pc = "done", !.ret = PA_NULL_ATOM,
                                      !.nodep = ga.node_atom,
                                      !.visited = seen]
                      ELSE IF is_attrib(nodep)
                              /\ nodep.xn_name = ga.name_atom
                      THEN [ga EXCEPT !.pc = "done",
                                      !.ret = nodep.xn_contents,
                                      !.nodep = ga.node_atom,
                                      !.visited = seen]
                      ELSE [ga EXCEPT !.nodep = ga.node_atom,
                                      !.node_atom =
                                          ga_advance(ga.node_atom, nodep),
                                      !.visited = seen]
    /\ UNCHANGED nodes

----------------------------------------------------------------------------
(* libxi/xiworkspace.c: the segment names xi_workspace_open derives from a *)
(* base name. A name is a sequence of characters. xi_mk_name is not part   *)
(* of the sources at hand; it joins base and suffix with a dot, as the     *)
(* specified naming scheme <base>.<suffix> has it.                         *)

xi_mk_name(name, ext) == name \o <<".">> \o ext

sfx_names == <<"n", "a", "m", "e", "s">>
sfx_namespaces == <<"n", "a", "m", "e", "s", "p", "a", "c", "e", "s">>
sfx_nodes == <<"n", "o", "d", "e", "s">>
sfx_data == <<"d", "a", "t", "a">>
sfx_index == <<"i", "n", "d", "e", "x">>
sfx_chunks == <<"n", "o", "d", "e", "s", "e", "t", "-",
                "c", "h", "u", "n", "k", "s">>
sfx_info == <<"n", "o", "d", "e", "s", "e", "t", "-", "i", "n", "f", "o">>

\* the base names given to xi_workspace_open: "a", "b" and "a.names"
BaseNames == {<<"a">>, <<"b">>, xi_mk_name(<<"a">>, sfx_names)}

\* The children in the order xi_workspace_open opens them, each with the
\* segment name it is opened under (lines 67-68 and 154, 159; 72-73 and
\* 186, 191; 77; 82; 87; 96).
SegNames(name) ==
    << <<"names.data",
         xi_mk_name(xi_mk_name(name, sfx_names), sfx_data)>>,
       <<"names.index",
         xi_mk_name(xi_mk_name(name, sfx_names), sfx_index)>>,
       <<"namespaces.data",
         xi_mk_name(xi_mk_name(name, sfx_namespaces), sfx_data)>>,
       <<"namespaces.index",
         xi_mk_name(xi_mk_name(name, sfx_namespaces), sfx_index)>>,
       <<"nodes", xi_mk_name(name, sfx_nodes)>>,
       <<"data", xi_mk_name(name, sfx_data)>>,
       <<"nodeset-chunks", xi_mk_name(name, sfx_chunks)>>,
       <<"nodeset-info", xi_mk_name(name, sfx_info)>> >>

\* xi_workspace_open(pmp, name) whose first n opens succeed: the segments of
\* the children it opened are in the directory of the region from then on
WsOpenNames(name, n) ==
    region' = region \cup
                {<<name, SegNames(name)[i][1], SegNames(name)[i][2]>> :
                    i \in 1 .. n}

----------------------------------------------------------------------------
(* The nodeset-chunks pool of the workspace (xi_workspace_open lines       *)
(* 86-93): a fixed pool with the zero-on-allocate policy set. Its user     *)
(* allocates records, writes them and frees them.                          *)

\* words per record and ceiling of the pool, scaled down
ZpWidth == 2
MaxZp == 3

\* mutant: the flag is not set
pa_fixed_set_flags_none(p, zero) == p

\* pa_fixed_set_flags(pool, PFF_INIT_ZERO)
pa_fixed_set_flags(p, zero) == [p EXCEPT !.zero = zero]

\* what the user of the pool writes into every word of a record
ZpValue == 7

\* zp.pool  : the pool
\* zp.live  : the atoms the user holds
\* zp.last  : the last command; for an allocation, stale is the record as it
\*            was in memory before the call (<<>> when its chunk did not
\*            exist) and rec is the record as the caller first reads it
zp_start ==
    [pool |-> pa_fixed_set_flags(pa_fixed_open(WsShift, ZpWidth, MaxZp, FALSE),
                                 TRUE),
     live |-> {},
     last |-> [op |-> "none", atom |-> PA_NULL_ATOM, stale |-> <<>>,
               rec |-> <<>>, why |-> "ok"]]

\* the user allocates a record and reads it
ZpAlloc(mapok) ==
    LET r    == pa_fixed_alloc_atom(zp.pool, mapok)
        addr == pa_fixed_atom_addr(r.pool, r.atom)
    IN  zp' = [pool |-> r.pool,
               live |-> IF r.atom = PA_NULL_ATOM THEN zp.live
                        ELSE zp.live \cup {r.atom},
               last |-> [op |-> "alloc", atom |-> r.atom,
                         stale |-> IF addr \in DOMAIN zp.pool.mem
                                   THEN zp.pool.mem[addr] ELSE <<>>,
                         rec |-> IF addr = NullAddr THEN <<>>
                                 ELSE r.pool.mem[addr],
                         why |-> r.why]]

\* the user fills a record it holds
ZpWrite(atom) ==
    /\ atom \in zp.live
    /\ zp' = [zp EXCEPT
                !.pool.mem[pa_fixed_atom_addr(zp.pool, atom)] =
                    [i \in 1 .. ZpWidth |-> ZpValue],
                !.last = [op |-> "write", atom |-> atom, stale |-> <<>>,
                          rec |-> <<>>, why |-> "ok"]]

\* the user frees a record it holds
ZpFree(atom) ==
    /\ atom \in zp.live
    /\ zp' = [zp EXCEPT
                !.pool = pa_fixed_free_atom(zp.pool, atom),
                !.live = @ \ {atom},
                !.last = [op |-> "free", atom |-> atom, stale |-> <<>>,
                          rec |-> <<>>, why |-> "ok"]]

----------------------------------------------------------------------------
(* libslax/slaxdebugger.c: the script debugger.                            *)
(* dbg holds the globals of the debugger: ds (slaxDebugState), status (the *)
(* libxslt debugger status), stack (slaxDebugStack, outermost frame        *)
(* first), bps (slaxDebugBreakpoints, oldest first) and bpnum              *)
(* (slaxDebugBreakpointNumber). Flags are kept as sets of their names.     *)
(* The engine (libxslt) is not part of the sources at hand; it is taken    *)
(* from the description of its callbacks in lines 9-40 of the file: it     *)
(* calls the handler before each instruction, addFrame when a template or  *)
(* a sequence is entered, and dropFrame for every addFrame that returned   *)
(* non-zero, properly nested.                                              *)

\* the NULL pointer of instructions, nodes, templates and contexts
DNULL == 0

\* The script being debugged, in document order:
\*   1  <xsl:template>            line 1
\*   2    <xsl:call-template>     line 2
\*   3      <xsl:with-param>      line 2
\*   4    <xsl:if>                line 3
\*   5      <xsl:value-of>        line 3
\*   6    text                    line 4
ScriptInsts == 1 .. 6
inst_name == <<"template", "call-template", "with-param", "if", "value-of",
               "text">>
inst_type == <<"element", "element", "element", "element", "element",
               "text">>
inst_line == <<1, 2, 2, 3, 3, 4>>
inst_parent == <<0, 1, 2, 1, 4, 1>>

xmlGetLineNo(inst) == inst_line[inst]

\* slaxNodeIsXsl: every element of the script is in the XSL namespace
slaxNodeIsXsl(inst, name) ==
    inst # DNULL /\ inst_type[inst] = "element" /\ inst_name[inst] = name

\* slaxDebugInit, slaxDebugSetStylesheet and lines 2119-2123 of
\* slaxDebugApplyStylesheet
dbg_start ==
    [ds |-> [ds_inst |-> DNULL, ds_node |-> DNULL, ds_template |-> DNULL,
             ds_ctxt |-> DNULL, ds_last_inst |-> DNULL,
             ds_stop_at |-> DNULL, ds_flags |-> {"DISPLAY", "PROFILER"},
             ds_stackdepth |-> 0],
     status |-> "NONE",
     stack  |-> <<>>,
     bps    |-> <<>>,
     bpnum  |-> 0]

xsltSetDebuggerStatus(d, s) == [d EXCEPT !.status = s]

SetFlags(d, f) == [d EXCEPT !.ds.ds_flags = @ \cup f]
ClearFlags(d, f) == [d EXCEPT !.ds.ds_flags = @ \ f]

\* lines 405-418
slaxDebugClearBreakpoints(d) == [d EXCEPT !.bps = <<>>, !.bpnum = 0]

\* lines 423-436: the frames go, the depth counter stays, and the
\* breakpoint number is reset
slaxDebugClearStacktrace(d) == [d EXCEPT !.stack = <<>>, !.bpnum = 0]

\* lines 615-645
slaxDebugCheckBreakpoint(d, node, reached) ==
    IF d.ds.ds_stop_at # DNULL /\ d.ds.ds_stop_at = node
    THEN [d |-> [(IF reached THEN xsltSetDebuggerStatus(d, "INIT") ELSE d)
                    EXCEPT !.ds.ds_stop_at = DNULL],
          hit |-> TRUE]
    ELSE IF \E i \in 1 .. Len(d.bps) : d.bps[i].dbp_inst = node
    THEN [d |-> IF reached THEN xsltSetDebuggerStatus(d, "INIT") ELSE d,
          hit |-> TRUE]
    ELSE [d |-> d, hit |-> FALSE]

\* A location given to 'break' or 'continue': none (argv[1] is NULL), a
\* line number, or a template name (v = 1 for the name of template 1, 0 for
\* a name the script does not have).
LocNone == [k |-> "none", v |-> 0]
LocLine(n) == [k |-> "line", v |-> n]
LocName(t) == [k |-> "name", v |-> t]

\* lines 272-289: the first node in document order on the line
slaxDebugGetNodeByLine(lineno) ==
    IF \E i \in ScriptInsts : xmlGetLineNo(i) = lineno
    THEN CHOOSE i \in ScriptInsts :
            /\ xmlGetLineNo(i) = lineno
            /\ \A j \in ScriptInsts : xmlGetLineNo(j) = lineno => i <= j
    ELSE DNULL

\* lines 238-249
slaxDebugGetTemplateNodebyName(t) == IF t = 1 THEN 1 ELSE DNULL

\* lines 686-724
slaxDebugGetNode(d, loc) ==
    IF loc.k = "none" THEN d.ds.ds_inst
    ELSE IF loc.k = "line" /\ loc.v > 0 THEN slaxDebugGetNodeByLine(loc.v)
    ELSE slaxDebugGetTemplateNodebyName(loc.v)

\* lines 741-773; memok = xmlMalloc gave a record
slaxDebugCmdBreak(d, loc, memok) ==
    LET node == slaxDebugGetNode(d, loc)
        c    == slaxDebugCheckBreakpoint(d, node, FALSE)
    IN  IF node = DNULL THEN [d |-> d, out |-> "is not defined"]
        ELSE IF c.hit THEN [d |-> c.d, out |-> "Duplicate breakpoint"]
        ELSE IF ~memok THEN [d |-> c.d, out |-> ""]
        ELSE [d |-> [c.d EXCEPT
                       !.bpnum = @ + 1,
                       !.bps = Append(@, [dbp_inst |-> node,
                                          dbp_num |-> c.d.bpnum + 1])],
              out |-> "Breakpoint"]

\* lines 775-785
slaxDebugCheckDone(d) == d.status \in {"NONE", "DONE"}

\* lines 787-802
slaxDebugCheckStart(d) ==
    IF d.status = "NONE"
    THEN [d |-> SetFlags(d, {"RESTART", "DISPLAY"}), done |-> FALSE]
    ELSE IF d.status = "DONE" THEN [d |-> d, done |-> TRUE]
    ELSE [d |-> d, done |-> FALSE]

\* lines 807-827
slaxDebugCmdContinue(d, loc) ==
    LET s    == slaxDebugCheckStart(d)
        node == slaxDebugGetNode(s.d, loc)
        go(x) == SetFlags(xsltSetDebuggerStatus(x, "CONT"),
                          {"DISPLAY", "CONTINUE"})
    IN  IF s.done THEN [d |-> s.d, out |-> "The script is not being run."]
        ELSE IF loc.k = "none" THEN [d |-> go(s.d), out |-> ""]
        ELSE IF node = DNULL THEN [d |-> s.d, out |-> "Unknown location"]
        ELSE [d |-> go([s.d EXCEPT !.ds.ds_stop_at = node]), out |-> ""]

\* removing the first element of a sequence that has the number
RECURSIVE RemoveNum(_, _)
RemoveNum(list, num) ==
    IF list = <<>> THEN <<>>
    ELSE IF Head(list).dbp_num = num THEN Tail(list)
    ELSE <<Head(list)>> \o RemoveNum(Tail(list), num)

\* lines 832-875; num = 0 stands for no argument, yes for the answer to
\* "Delete all breakpoints?"
slaxDebugCmdDelete(d, num, yes) ==
    IF num = 0
    THEN IF yes THEN [d |-> slaxDebugClearBreakpoints(d),
                      out |-> "Deleted all breakpoints"]
         ELSE [d |-> d, out |-> ""]
    ELSE IF \E i \in 1 .. Len(d.bps) : d.bps[i].dbp_num = num
    THEN [d |-> [d EXCEPT !.bps = RemoveNum(@, num)],
          out |-> "Deleted breakpoint"]
    ELSE [d |-> d, out |-> "not found"]

\* lines 1011-1019: the frames whose instruction is an xsl:template
TemplateFrames(stack) ==
    {i \in 1 .. Len(stack) : slaxNodeIsXsl(stack[i].st_inst, "template")}

Highest(S) == CHOOSE i \in S : \A j \in S : j <= i

\* lines 997-1029: walking from the last frame to the first, the first
\* template frame met is marked; when there is none, the frame the walk
\* ended on, which is the first of the list
slaxDebugCmdFinish(d) ==
    LET go(i) == xsltSetDebuggerStatus(
                    SetFlags([d EXCEPT !.stack[i].st_flags =
                                          @ \cup {"STOPWHENPOP"}],
                             {"DISPLAY"}),
                    "CONT")
    IN  IF slaxDebugCheckDone(d)
        THEN [d |-> d, out |-> "The script is not being run."]
        ELSE IF TemplateFrames(d.stack) # {}
        THEN [d |-> go(Highest(TemplateFrames(d.stack))), out |-> ""]
        ELSE IF d.stack # <<>> THEN [d |-> go(1), out |-> ""]
        ELSE [d |-> d, out |-> "template not found"]

\* lines 1034-1042
slaxDebugCmdStep(d) ==
    LET s == slaxDebugCheckStart(d)
    IN  IF s.done THEN [d |-> s.d, out |-> "The script is not being run."]
        ELSE [d |-> SetFlags(xsltSetDebuggerStatus(s.d, "STEP"),
                             {"DISPLAY"}),
              out |-> ""]

\* lines 1066-1074
slaxDebugCmdOver(d) ==
    IF slaxDebugCheckDone(d)
    THEN [d |-> d, out |-> "The script is not being run."]
    ELSE [d |-> SetFlags(xsltSetDebuggerStatus(d, "OVER"),
                         {"OVER", "DISPLAY"}),
          out |-> ""]

\* lines 1048-1061
slaxDebugCmdNext(d) ==
    LET s == slaxDebugCheckStart(d)
    IN  IF s.done THEN [d |-> s.d, out |-> "The script is not being run."]
        ELSE IF slaxNodeIsXsl(s.d.ds.ds_inst, "call-template")
        THEN [d |-> SetFlags(xsltSetDebuggerStatus(s.d, "OVER"),
                             {"OVER", "DISPLAY"}),
              out |-> ""]
        ELSE [d |-> SetFlags(xsltSetDebuggerStatus(s.d, "STEP"),
                             {"DISPLAY"}),
              out |-> ""]

\* the script has been started: 'run' and 'reload' ask before they go on
Started(d) == d.status \notin {"NONE", "DONE", "QUIT"}

\* lines 1385-1416; yes = the answer to "Reload and restart it?"
slaxDebugCmdReload(d, yes) ==
    IF Started(d) /\ ~yes THEN [d |-> d, out |-> ""]
    ELSE [d |-> SetFlags(xsltSetDebuggerStatus(d, "QUIT"), {"RELOAD"}),
          out |-> ""]

\* lines 1421-1451; yes = the answer to "Start it from the beginning?"
slaxDebugCmdRun(d, yes) ==
    IF Started(d) /\ ~yes THEN [d |-> d, out |-> ""]
    ELSE [d |-> SetFlags(xsltSetDebuggerStatus(d, "QUIT"),
                         {"RESTART", "DISPLAY", "CONTINUE"}),
          out |-> ""]

\* lines 1456-1483; yes = the answer to "Exit anyway?"
slaxDebugCmdQuit(d, yes) ==
    IF d.status \notin {"NONE", "DONE"} /\ ~yes THEN [d |-> d, out |-> ""]
    ELSE [d |-> xsltSetDebuggerStatus(d, "QUIT"), out |-> ""]

\* 'print' and the other commands that only show something
slaxDebugCmdShow(d) == [d |-> d, out |-> ""]

\* A command line: the command, and what its arguments and the user's
\* answers come to.
NoArgs == [loc |-> LocNone, num |-> 0, yes |-> FALSE, memok |-> TRUE]
Cmd(name) == [cmd |-> name] @@ NoArgs

\* lines 1605-1623 with the table of lines 1487-1580
slaxDebugRunCommand(d, c) ==
    CASE c.cmd = "break"    -> slaxDebugCmdBreak(d, c.loc, c.memok)
      [] c.cmd = "continue" -> slaxDebugCmdContinue(d, c.loc)
      [] c.cmd = "delete"   -> slaxDebugCmdDelete(d, c.num, c.yes)
      [] c.cmd = "finish"   -> slaxDebugCmdFinish(d)
      [] c.cmd = "next"     -> slaxDebugCmdNext(d)
      [] c.cmd = "over"     -> slaxDebugCmdOver(d)
      [] c.cmd = "reload"   -> slaxDebugCmdReload(d, c.yes)
      [] c.cmd = "run"      -> slaxDebugCmdRun(d, c.yes)
      [] c.cmd = "step"     -> slaxDebugCmdStep(d)
      [] c.cmd = "quit"     -> slaxDebugCmdQuit(d, c.yes)
      [] OTHER              -> slaxDebugCmdShow(d)

\* lines 1635-1640: the current line is shown once
slaxDebugShellDisplay(d) ==
    IF "DISPLAY" \in d.ds.ds_flags /\ d.ds.ds_inst # DNULL
    THEN ClearFlags(d, {"DISPLAY"}) ELSE d

\* lines 1629-1671 for a line of input (ds_count is left out): the command
\* runs with DSF_INSHELL set
slaxDebugShell(d, c) ==
    LET r == slaxDebugRunCommand(
                SetFlags(slaxDebugShellDisplay(d), {"INSHELL"}), c)
    IN  [d |-> ClearFlags(r.d, {"INSHELL"}), out |-> r.out]

\* mutant: the callbacks do not look at DSF_INSHELL
in_shell_never(d) == FALSE

\* lines 1723, 1864, 1960: statep->ds_flags & DSF_INSHELL
in_shell(d) == "INSHELL" \in d.ds.ds_flags

\* lines 1684-1700; the script is one document. (A ds_last_inst that is set
\* with a NULL ds_inst does not occur: line 1827 copies the one to the
\* other and both are cleared together.)
slaxDebugSameSlax(d, inst) ==
    IF d.ds.ds_last_inst = DNULL \/ inst = DNULL \/ d.ds.ds_inst = DNULL
    THEN FALSE
    ELSE IF d.ds.ds_inst = inst THEN TRUE
    ELSE xmlGetLineNo(inst) > 0
         /\ xmlGetLineNo(inst) = xmlGetLineNo(d.ds.ds_inst)

\* lines 1772-1793: the context is noted in the two newest frames (the
\* indexes of the local variables, which the engine owns, are left out)
slaxDebugFreshAdd(d, ctxt) ==
    IF ctxt # DNULL /\ "FRESHADD" \in d.ds.ds_flags
    THEN [ClearFlags(d, {"FRESHADD"}) EXCEPT
            !.stack = [i \in 1 .. Len(@) |->
                          IF i >= Len(@) - 1
                          THEN [@[i] EXCEPT !.st_ctxt = ctxt] ELSE @[i]]]
    ELSE d

\* lines 1714-1809: the handler up to its loop; early = it returned before
\* it recorded anything
slaxDebugHandlerEntry(d, inst, node, template, ctxt) ==
    IF in_shell(d) THEN [d |-> d, early |-> TRUE, hit |-> FALSE]
    ELSE IF inst # DNULL /\ inst_type[inst] = "text"
    THEN [d |-> d, early |-> TRUE, hit |-> FALSE]
    ELSE IF d.status \in {"DONE", "QUIT"}
    THEN [d |-> d, early |-> TRUE, hit |-> FALSE]
    ELSE IF slaxDebugSameSlax(d, inst)
    THEN [d |-> d, early |-> TRUE, hit |-> FALSE]
    ELSE LET d1 == [d EXCEPT !.ds.ds_inst = inst, !.ds.ds_node = node,
                             !.ds.ds_template = template,
                             !.ds.ds_ctxt = ctxt]
             c  == slaxDebugCheckBreakpoint(slaxDebugFreshAdd(d1, ctxt),
                                            inst, TRUE)
         IN  [d |-> ClearFlags(c.d, {"CONTINUE"}), early |-> FALSE,
              hit |-> c.hit]

\* lines 1833-1834: case XSLT_DEBUG_STEP
handler_step(d) == xsltSetDebuggerStatus(d, "INIT")

\* lines 1811-1846: one round of the loop; pc is "shell" when the shell is
\* entered, "run" when the handler returns, "spin" for a status the switch
\* has no case for
slaxDebugHandlerLoop(d) ==
    CASE d.status = "INIT" -> [d |-> d, pc |-> "shell"]
      [] d.status = "QUIT" -> [d |-> d, pc |-> "run"]
      [] d.status = "STEP" -> [d |-> handler_step(d), pc |-> "run"]
      [] d.status \in {"OVER", "NEXT", "CONT", "NONE"} ->
            [d |-> d, pc |-> "run"]
      [] OTHER -> [d |-> d, pc |-> "spin"]

\* lines 1821-1828 and the next round: a command has been read in the
\* handler's shell
slaxDebugHandlerShell(d, c) ==
    LET s == slaxDebugShell(d, c).d
    IN  slaxDebugHandlerLoop([s EXCEPT !.ds.ds_last_inst = s.ds.ds_inst])

\* lines 1821-1824: end of input in the handler's shell
slaxDebugHandlerEof(d) ==
    xsltSetDebuggerStatus(slaxDebugShellDisplay(d), "QUIT")

\* lines 1922-1926
is_with_param(inst) == slaxNodeIsXsl(inst, "with-param")

\* lines 1856-1945; memok = xmlMalloc gave a frame
slaxDebugAddFrame(d, template, inst, memok) ==
    IF in_shell(d) THEN [d |-> d, ret |-> 0]
    ELSE IF inst = DNULL THEN [d |-> d, ret |-> 0]
    ELSE IF inst = d.ds.ds_inst
            /\ inst_name[inst] \in {"call-template", "template"}
    THEN [d |-> d, ret |-> 0]
    ELSE IF ~memok THEN [d |-> d, ret |-> 0]
    ELSE LET over == ~is_with_param(inst) /\ "OVER" \in d.ds.ds_flags
             dsfp == [st_depth |-> d.ds.ds_stackdepth,
                      st_template |-> template, st_inst |-> inst,
                      st_caller |-> d.ds.ds_inst, st_ctxt |-> DNULL,
                      st_flags |->
                         (IF is_with_param(inst) THEN {"PARAM"} ELSE {})
                         \cup (IF over THEN {"STOPWHENPOP"} ELSE {})]
             d1   == [d EXCEPT !.ds.ds_stackdepth = @ + 1,
                               !.stack = Append(@, dsfp)]
             d2   == IF over
                     THEN xsltSetDebuggerStatus(ClearFlags(d1, {"OVER"}),
                                                "CONT")
                     ELSE d1
         IN  [d |-> SetFlags(d2, {"FRESHADD"}), ret |-> 1]

\* mutant: the frame is popped and the depth counter is left as it is
slaxDebugDropFrame_keep(d) ==
    IF in_shell(d) \/ d.stack = <<>> THEN d
    ELSE [d EXCEPT !.stack = SubSeq(@, 1, Len(@) - 1),
                   !.ds.ds_last_inst = DNULL]

\* lines 1950-2001
slaxDebugDropFrame(d) ==
    IF in_shell(d) THEN d
    ELSE IF d.stack = <<>> THEN d
    ELSE LET dsfp == d.stack[Len(d.stack)]
             d1   == IF "STOPWHENPOP" \in dsfp.st_flags
                     THEN xsltSetDebuggerStatus(d, "INIT") ELSE d
         IN  [d1 EXCEPT !.stack = SubSeq(@, 1, Len(@) - 1),
                        !.ds.ds_stackdepth = @ - 1,
                        !.ds.ds_last_inst = DNULL]

\* lines 2040-2052
slaxDebugSetStylesheet(d) ==
    [d EXCEPT !.ds.ds_inst = DNULL, !.ds.ds_template = DNULL,
              !.ds.ds_node = DNULL, !.ds.ds_last_inst = DNULL,
              !.ds.ds_stop_at = DNULL]

\* lines 2134-2142: the script is (re)started
slaxDebugRestart(d) ==
    LET d1 == SetFlags(ClearFlags(d, {"RESTART"}), {"DISPLAY"})
    IN  IF "CONTINUE" \in d1.ds.ds_flags
        THEN ClearFlags(xsltSetDebuggerStatus(d1, "CONT"), {"CONTINUE"})
        ELSE xsltSetDebuggerStatus(d1, "INIT")

\* lines 2145-2173; ok = slaxDebugReload gave a new stylesheet. (Line 2167
\* clears the flags in DSF_RESTART & DSF_DISPLAY, which is none.)
slaxDebugReloaded(d, ok) ==
    LET d1 == xsltSetDebuggerStatus(ClearFlags(d, {"RELOAD"}), "NONE")
    IN  IF ok
        THEN slaxDebugSetStylesheet(
                slaxDebugClearStacktrace(slaxDebugClearBreakpoints(d1)))
        ELSE d1

\* lines 2232-2235
slaxDebugLeave(d) == slaxDebugClearStacktrace(slaxDebugClearBreakpoints(d))

\* lines 2133-2181: after a command of the shell of
\* slaxDebugApplyStylesheet; pc is "run" when the script is started, "top"
\* when the shell is entered again, "exit" when the debugger is left
slaxDebugApplyLoop(d, ok) ==
    IF "RESTART" \in d.ds.ds_flags
    THEN [d |-> slaxDebugRestart(d), pc |-> "run"]
    ELSE IF "RELOAD" \in d.ds.ds_flags
    THEN [d |-> slaxDebugReloaded(d, ok), pc |-> "top"]
    ELSE IF d.status = "QUIT" THEN [d |-> slaxDebugLeave(d), pc |-> "exit"]
    ELSE [d |-> d, pc |-> "top"]

\* lines 2183-2229: xsltApplyStylesheet has returned
slaxDebugApplyDone(d, ok) ==
    IF d.status = "QUIT"
    THEN IF "RELOAD" \in d.ds.ds_flags
         THEN [d |-> slaxDebugReloaded(d, ok), pc |-> "top"]
         ELSE IF "RESTART" \in d.ds.ds_flags
         THEN [d |-> slaxDebugRestart(slaxDebugClearStacktrace(d)),
               pc |-> "run"]
         ELSE [d |-> slaxDebugLeave(d), pc |-> "exit"]
    ELSE [d |-> xsltSetDebuggerStatus(
                   [d EXCEPT !.ds.ds_ctxt = DNULL, !.ds.ds_inst = DNULL,
                             !.ds.ds_node = DNULL,
                             !.ds.ds_template = DNULL,
                             !.ds.ds_last_inst = DNULL,
                             !.ds.ds_stop_at = DNULL],
                   "DONE"),
          pc |-> "top"]

\* The engine and the shells. eng.pc tells who runs: "top" the shell of
\* slaxDebugApplyStylesheet, "run" the engine, "shell" the shell inside the
\* handler, "print" a 'print' command inside that shell, "exit" nobody;
\* eng.open holds what addFrame returned for the calls the engine is in.
eng_start == [pc |-> "top", open |-> <<>>]

\* the context node and template the engine hands over: both NULL while a
\* global variable is initialized
EngNode(glob) == IF glob THEN DNULL ELSE 1
EngTemplate(glob) == IF glob THEN DNULL ELSE 1
\* the transformation context, never NULL
EngCtxt == 1

\* the most frames the engine is in at a time, and the highest breakpoint
\* number given out
MaxFrames == 2
MaxBps == 2

\* What is remembered of a run for the claims: the command that made the
\* handler return (pend), the instruction it was given at (at), the place
\* on the stack of the frame it waits for (mark), whether a frame that is
\* no with-param was pushed (pushed) and whether the awaited frame was
\* popped (popped) since, whether no callback came since (fresh), whether
\* the status has been QUIT or DONE in this run (quit), and the last
\* callback made while a 'print' runs (cb), and the last
\* handler call (with ds_stop_at before and after it, and whether it
\* returned before it recorded anything), addFrame call and 'break'
\* command.
NoInv == [n |-> 0, inst |-> DNULL, shell |-> FALSE, hit |-> FALSE,
          pend |-> "none", at |-> DNULL, pushed |-> FALSE,
          popped |-> FALSE, stop |-> DNULL, quit |-> FALSE, same |-> TRUE,
          early |-> FALSE, stopped |-> DNULL, status |-> "NONE"]
NoAdd == [n |-> 0, ret |-> 0, first |-> FALSE, marked |-> FALSE]
NoBrk == [n |-> 0, node |-> DNULL, had |-> FALSE, stop |-> DNULL,
          out |-> "", added |-> 0, memok |-> TRUE, other |-> TRUE]

dh_start == [pend |-> "none", at |-> DNULL, mark |-> 0, pushed |-> FALSE,
             popped |-> FALSE, fresh |-> FALSE, quit |-> FALSE,
             inv |-> NoInv, add |-> NoAdd, brk |-> NoBrk, cb |-> "none"]

Quitted(d) == d.status \in {"QUIT", "DONE"}

\* the place on the stack of the frame 'finish' is to wait for: the
\* innermost frame of an xsl:template, else the outermost frame
FinishTarget(stack) ==
    IF \E i \in 1 .. Len(stack) : inst_name[stack[i].st_inst] = "template"
    THEN CHOOSE i \in 1 .. Len(stack) :
            /\ inst_name[stack[i].st_inst] = "template"
            /\ \A j \in i + 1 .. Len(stack) :
                  inst_name[stack[j].st_inst] # "template"
    ELSE IF stack = <<>> THEN 0 ELSE 1

\* what a 'break' command did
brk_seen(d, c) ==
    LET node == slaxDebugGetNode(d, c.loc)
        r    == slaxDebugCmdBreak(d, c.loc, c.memok)
    IN  [n |-> 1, node |-> node,
         had |-> \E i \in 1 .. Len(d.bps) : d.bps[i].dbp_inst = node,
         stop |-> d.ds.ds_stop_at, out |-> r.out,
         added |-> Len(r.d.bps) - Len(d.bps), memok |-> c.memok,
         other |-> ([r.d EXCEPT !.bps = d.bps, !.bpnum = d.bpnum] = d)]

\* the engine calls the handler for an instruction
DbgHandler(inst, glob) ==
    LET e == slaxDebugHandlerEntry(dbg, inst, EngNode(glob),
                                   EngTemplate(glob), EngCtxt)
        l == IF e.early THEN [d |-> dbg, pc |-> "run"]
             ELSE slaxDebugHandlerLoop(e.d)
    IN  /\ eng.pc = "run"
        /\ dbg' = l.d
        /\ eng' = [eng EXCEPT !.pc = l.pc]
        /\ dh' = [dh EXCEPT
                    !.inv = [n |-> 1, inst |-> inst,
                             shell |-> l.pc = "shell", hit |-> e.hit,
                             pend |-> dh.pend, at |-> dh.at,
                             pushed |-> dh.pushed, popped |-> dh.popped,
                             stop |-> dbg.ds.ds_stop_at, quit |-> dh.quit,
                             same |-> l.d = dbg, early |-> e.early,
                             stopped |-> l.d.ds.ds_stop_at,
                             status |-> dbg.status],
                    !.pend = IF l.pc = "shell" THEN "none" ELSE @,
                    !.at = IF l.pc = "shell" THEN DNULL ELSE @,
                    !.mark = IF l.pc = "shell" THEN 0 ELSE @,
                    !.pushed = IF l.pc = "shell" THEN FALSE ELSE @,
                    !.popped = IF l.pc = "shell" THEN FALSE ELSE @,
                    !.fresh = FALSE,
                    !.quit = @ \/ Quitted(l.d)]

\* the engine enters a template or a sequence and calls addFrame
DbgAddFrame(inst, glob, memok) ==
    LET r     == slaxDebugAddFrame(dbg, EngTemplate(glob), inst, memok)
        first == dh.pend = "over" /\ ~dh.pushed /\ r.ret = 1
                 /\ inst_name[inst] # "with-param"
    IN  /\ eng.pc = "run"
        /\ Len(eng.open) < MaxFrames
        /\ dbg' = r.d
        /\ eng' = [eng EXCEPT !.open = Append(@, r.ret)]
        /\ dh' = [dh EXCEPT
                    !.add = [n |-> 1, ret |-> r.ret, first |-> first,
                             marked |-> r.ret = 1 /\ "STOPWHENPOP" \in
                                 r.d.stack[Len(r.d.stack)].st_flags],
                    !.pushed = @ \/ (dh.pend # "none" /\ r.ret = 1
                                     /\ inst_name[inst] # "with-param"),
                    !.mark = IF first THEN Len(r.d.stack) ELSE @,
                    !.fresh = FALSE,
                    !.quit = @ \/ Quitted(r.d)]

\* the engine leaves the call it is in; dropFrame is called when the
\* addFrame of the call returned non-zero
DbgDropFrame ==
    LET d == IF eng.open[Len(eng.open)] = 1 THEN slaxDebugDropFrame(dbg)
             ELSE dbg
    IN  /\ eng.pc = "run"
        /\ eng.open # <<>>
        /\ dbg' = d
        /\ eng' = [eng EXCEPT !.open = SubSeq(@, 1, Len(@) - 1)]
        /\ dh' = [dh EXCEPT
                    !.popped = @ \/ (dh.mark # 0 /\ Len(d.stack) < dh.mark),
                    !.fresh = FALSE,
                    !.quit = @ \/ Quitted(d)]

\* xsltApplyStylesheet returns
DbgEnd(ok) ==
    LET a == slaxDebugApplyDone(dbg, ok)
    IN  /\ eng.pc = "run"
        /\ eng.open = <<>>
        /\ dbg' = a.d
        /\ eng' = [eng EXCEPT !.pc = a.pc]
        /\ dh' = dh_start

\* the command that made the shell return, as the claims name it
pend_of(c, status) ==
    CASE status = "STEP" -> "step"
      [] status = "OVER" -> "over"
      [] status = "CONT" -> IF c.cmd = "finish" THEN "finish" ELSE "cont"
      [] status = "QUIT" -> "quit"
      [] OTHER -> "none"

\* a command is given in the shell inside the handler
DbgShell(c) ==
    LET s == slaxDebugShell(dbg, c).d
        l == slaxDebugHandlerShell(dbg, c)
    IN  /\ eng.pc = "shell"
        /\ c.cmd = "break" => dbg.bpnum < MaxBps
        /\ dbg' = l.d
        /\ eng' = [eng EXCEPT !.pc = l.pc]
        /\ dh' = IF l.pc = "shell"
                 THEN [dh EXCEPT !.brk = IF c.cmd = "break"
                                         THEN brk_seen(dbg, c) ELSE @]
                 ELSE [dh EXCEPT
                         !.pend = pend_of(c, s.status),
                         !.at = dbg.ds.ds_inst,
                         !.mark = IF c.cmd = "finish"
                                  THEN FinishTarget(dbg.stack) ELSE 0,
                         !.pushed = FALSE, !.popped = FALSE,
                         !.fresh = TRUE,
                         !.quit = @ \/ Quitted(l.d),
                         !.inv = NoInv, !.add = NoAdd, !.brk = NoBrk]

\* the input of the shell inside the handler ends
DbgShellEof ==
    /\ eng.pc = "shell"
    /\ dbg' = slaxDebugHandlerEof(dbg)
    /\ eng' = [eng EXCEPT !.pc = "run"]
    /\ dh' = [dh EXCEPT !.pend = "quit", !.at = dbg.ds.ds_inst,
                        !.mark = 0, !.pushed = FALSE, !.popped = FALSE,
                        !.fresh = TRUE, !.quit = TRUE,
                        !.inv = NoInv, !.add = NoAdd, !.brk = NoBrk]

\* 'print' evaluates an expression, during which the engine may call back:
\* lines 1663-1665 taken apart
DbgPrintBegin ==
    /\ eng.pc = "shell"
    /\ dbg' = SetFlags(slaxDebugShellDisplay(dbg), {"INSHELL"})
    /\ eng' = [eng EXCEPT !.pc = "print"]
    /\ dh' = [dh EXCEPT !.add = NoAdd, !.cb = "none"]

DbgPrintHandler(inst, glob) ==
    LET e == slaxDebugHandlerEntry(dbg, inst, EngNode(glob),
                                   EngTemplate(glob), EngCtxt)
    IN  /\ eng.pc = "print"
        /\ dbg' = IF e.early THEN dbg ELSE slaxDebugHandlerLoop(e.d).d
        /\ dh' = [dh EXCEPT !.cb = "handler"]
        /\ UNCHANGED eng

DbgPrintAddFrame(inst, glob, memok) ==
    LET r == slaxDebugAddFrame(dbg, EngTemplate(glob), inst, memok)
    IN  /\ eng.pc = "print"
        /\ dbg' = r.d
        /\ dh' = [dh EXCEPT !.add = [n |-> 1, ret |-> r.ret,
                                     first |-> FALSE, marked |-> FALSE],
                            !.cb = "addFrame"]
        /\ UNCHANGED eng

DbgPrintDropFrame ==
    /\ eng.pc = "print"
    /\ dbg' = slaxDebugDropFrame(dbg)
    /\ dh' = [dh EXCEPT !.cb = "dropFrame"]
    /\ UNCHANGED eng

DbgPrintEnd ==
    LET s == ClearFlags(dbg, {"INSHELL"})
        l == slaxDebugHandlerLoop([s EXCEPT !.ds.ds_last_inst =
                                              s.ds.ds_inst])
    IN  /\ eng.pc = "print"
        /\ dbg' = l.d
        /\ eng' = [eng EXCEPT !.pc = l.pc]
        /\ dh' = [dh EXCEPT !.add = NoAdd, !.cb = "none"]

\* a command is given in the shell of slaxDebugApplyStylesheet (line 2126)
DbgTop(c, ok) ==
    LET a == slaxDebugApplyLoop(slaxDebugShell(dbg, c).d, ok)
    IN  /\ eng.pc = "top"
        /\ c.cmd = "break" => dbg.bpnum < MaxBps
        /\ dbg' = a.d
        /\ eng' = [eng EXCEPT !.pc = a.pc]
        /\ dh' = [dh_start EXCEPT !.brk = IF c.cmd = "break"
                                         THEN brk_seen(dbg, c) ELSE @]

\* the input of that shell ends (lines 2126-2127)
DbgTopEof ==
    /\ eng.pc = "top"
    /\ dbg' = slaxDebugLeave(slaxDebugShellDisplay(dbg))
    /\ eng' = [eng EXCEPT !.pc = "exit"]
    /\ dh' = dh_start

----------------------------------------------------------------------------
(* Specifications: each one runs one part of the program; the state of the *)
(* other parts stays as constructed.                                       *)

\* no xi_namepool_atom call has been made
NoCall == [op |-> "none", data |-> <<>>, createp |-> FALSE,
           atom |-> PA_NULL_ATOM, add |-> "none", log |-> ""]

r_idle == [pc |-> "idle", data |-> <<>>, createp |-> FALSE,
           datom |-> PA_NULL_ATOM]

\* no xi_ns_find call has been made
NoNsCall == [op |-> "none", prefix |-> <<>>, uri |-> <<>>, createp |-> FALSE,
             atom |-> PA_NULL_ATOM, add |-> "none", log |-> ""]

n_idle == [pc |-> "idle", prefix |-> <<>>, uri |-> <<>>, createp |-> FALSE,
           prefix_atom |-> PA_NULL_ATOM, uri_atom |-> PA_NULL_ATOM,
           atom |-> PA_NULL_ATOM]

\* xi_get_attrib about to be called on node 1 for name_atom
ga_start(name_atom) ==
    [pc |-> "enter", nodep |-> 1, name_atom |-> name_atom, depth |-> 0,
     node_atom |-> PA_NULL_ATOM, ret |-> PA_NULL_ATOM, visited |-> <<>>]

\* The state after construction: the test pool set up (pa_03.c lines
\* 116-128), the workspace pools empty, xi_workspace_open about to run, and
\* no node table.
Init ==
    /\ pfp = pa_fixed_open(TestShift, TestWidth, TestMaxAtoms, FALSE)
    /\ trec = [s \in TestSlots |-> NullAddr]
    /\ t_last = [op |-> "none", slot |-> 0, atom |-> PA_NULL_ATOM,
                 why |-> "ok"]
    /\ h_owned = <<>>
    /\ xwp = xi_workspace(MaxNames, MaxNs)
    /\ w_last = NoCall
    /\ h_names = {}
    /\ h_ns = {}
    /\ r_call = r_idle
    /\ wo = wo_start(1)
    /\ nodes = <<>>
    /\ ga = [ga_start(PA_NULL_ATOM) EXCEPT !.pc = "idle"]
    /\ n_last = NoNsCall
    /\ n_call = n_idle
    /\ zp = zp_start
    /\ region = {}
    /\ dbg = dbg_start
    /\ eng = eng_start
    /\ dh = dh_start

\* The same, with a node table and a name atom for xi_get_attrib.
InitAttrib ==
    /\ pfp = pa_fixed_open(TestShift, TestWidth, TestMaxAtoms, FALSE)
    /\ trec = [s \in TestSlots |-> NullAddr]
    /\ t_last = [op |-> "none", slot |-> 0, atom |-> PA_NULL_ATOM,
                 why |-> "ok"]
    /\ h_owned = <<>>
    /\ xwp = xi_workspace(MaxNames, MaxNs)
    /\ w_last = NoCall
    /\ h_names = {}
    /\ h_ns = {}
    /\ r_call = r_idle
    /\ wo = wo_start(1)
    /\ nodes \in NodeTables
    /\ ga \in {ga_start(name_atom) : name_atom \in {1, 2}}
    /\ n_last = NoNsCall
    /\ n_call = n_idle
    /\ zp = zp_start
    /\ region = {}
    /\ dbg = dbg_start
    /\ eng = eng_start
    /\ dh = dh_start

\* tests/pa/pa_03.c: the commands of the test, in any order
NextPa ==
    \/ \E slot \in TestSlots, mapok \in BOOLEAN :
          TestAlloc(slot, mapok) /\ UNCHANGED rest_pa
    \/ \E slot \in TestSlots :
          TestFree(slot) /\ UNCHANGED rest_pa

SpecPa == Init /\ [][NextPa]_vars

\* callers intern names, one call after the other
NextNames ==
    \E data \in Texts, createp \in BOOLEAN, env \in NameEnvs :
        NameAtom(data, createp, env)
        /\ UNCHANGED rest_ws

SpecNames == Init /\ [][NextNames]_vars

\* callers intern namespace pairs, one call after the other
NextNs ==
    \E prefix \in NsPrefixes, uri \in NsUris, createp \in BOOLEAN,
       env \in Envs :
        \* without createp the pair is not allocated: only the name calls run
        /\ createp \/ env \in NameEnvs
        /\ NsFind(prefix, uri, createp, env)
        /\ UNCHANGED rest_ws

SpecNs == Init /\ [][NextNs]_vars

\* callers create namespace pairs, with or without a prefix and a uri, and
\* look at what each call returns
NextNsSeen ==
    \E prefix \in NsPrefixes \ {<<98>>}, uri \in NsUris, env \in Envs :
        NsFindSeen(prefix, uri, TRUE, env) /\ UNCHANGED rest_ns

SpecNsSeen == Init /\ [][NextNsSeen]_vars

\* callers look namespace pairs up, with and without create, and look at
\* what each call returns
NsLookPrefixes == {<<97>>, <<>>, NULL}
NsLookUris == {<<117>>, <<>>}

NextNsLook ==
    \E prefix \in NsLookPrefixes, uri \in NsLookUris, createp \in BOOLEAN,
       env \in Envs :
        \* without createp the pair is not allocated: only the name calls run
        /\ createp \/ env \in NameEnvs
        /\ NsFindSeen(prefix, uri, createp, env)
        /\ UNCHANGED rest_ns

SpecNsLook == Init /\ [][NextNsLook]_vars

\* callers intern names of any length
NextLong ==
    \E data \in LongTexts, createp \in BOOLEAN, env \in NameEnvs :
        NameAtom(data, createp, env) /\ UNCHANGED rest_ws

SpecLong == Init /\ [][NextLong]_vars

\* callers intern short names and two names of 65537 bytes that differ in
\* their last byte
InternTexts == {<<97>>, <<97, 97>>, Rep(97, U16 + 1), Rep(97, U16) \o <<98>>}

NextIntern ==
    \E data \in InternTexts, createp \in BOOLEAN, env \in NameEnvs :
        NameAtom(data, createp, env) /\ UNCHANGED rest_ws

SpecIntern == Init /\ [][NextIntern]_vars

\* One program at a time: a run is the pa_03 test, or a user of the
\* workspace interning names, or one interning namespace pairs.
NextAtoms ==
    \/ w_last.op = "none" /\ n_last.op = "none" /\ NextPa
    \/ t_last.op = "none" /\ n_last.op = "none" /\ NextNames
    \/ t_last.op = "none" /\ w_last.op = "none" /\ NextNsSeen

SpecAtoms == Init /\ [][NextAtoms]_vars

\* workspaces are opened in one mapped region under the base names
rest_rg == <<vars_pa, vars_ws, vars_wo, vars_ga, vars_nf, vars_zp,
            vars_db>>

NextRegion ==
    \E name \in BaseNames :
        \E n \in 1 .. Len(SegNames(name)) :
            WsOpenNames(name, n) /\ UNCHANGED rest_rg

SpecRegion == Init /\ [][NextRegion]_vars

\* the user of the nodeset-chunks pool
rest_zp == <<vars_pa, vars_ws, vars_wo, vars_ga, vars_nf, vars_rg,
            vars_db>>

NextZp ==
    \/ \E mapok \in BOOLEAN : ZpAlloc(mapok) /\ UNCHANGED rest_zp
    \/ \E atom \in 1 .. MaxZp : ZpWrite(atom) /\ UNCHANGED rest_zp
    \/ \E atom \in 1 .. MaxZp : ZpFree(atom) /\ UNCHANGED rest_zp

SpecZp == Init /\ [][NextZp]_vars

\* two writers of one mapped region intern namespace pairs
NsRacePrefixes == {<<97>>, <<>>}
NsRaceUris == {<<117>>, <<>>}

NextNsRace ==
    \/ \E prefix \in NsRacePrefixes, uri \in NsRaceUris, createp \in BOOLEAN,
          env \in NameEnvs :
          NsRaceLookup(prefix, uri, createp, env) /\ UNCHANGED rest_ns
    \/ \E env \in Envs : NsRaceFinish(env) /\ UNCHANGED rest_ns
    \/ \E prefix \in NsRacePrefixes, uri \in NsRaceUris, env \in Envs :
          NsRaceOther(prefix, uri, env) /\ UNCHANGED rest_ns

SpecNsRace == Init /\ [][NextNsRace]_vars

\* two writers of one mapped region intern names
NextRace ==
    \/ \E data \in Texts, createp \in BOOLEAN :
          RaceLookup(data, createp)
          /\ UNCHANGED rest_ws
    \/ \E env \in NameEnvs :
          RaceFinish(env) /\ UNCHANGED rest_ws
    \/ \E data \in Texts, env \in NameEnvs :
          RaceOther(data, env) /\ UNCHANGED rest_ws

SpecRace == Init /\ [][NextRace]_vars

\* xi_workspace_open, any of whose opens may fail, tried up to MaxTries times
NextOpen ==
    \/ \E ok1, ok2 \in BOOLEAN :
          WoNames(ok1, ok2) /\ UNCHANGED rest_wo
    \/ \E ok1, ok2 \in BOOLEAN :
          WoNamespaces(ok1, ok2) /\ UNCHANGED rest_wo
    \/ \E ok \in BOOLEAN :
          WoNodes(ok) /\ UNCHANGED rest_wo
    \/ \E ok \in BOOLEAN :
          WoData(ok) /\ UNCHANGED rest_wo
    \/ \E ok \in BOOLEAN :
          WoChunks(ok) /\ UNCHANGED rest_wo
    \/ \E ok \in BOOLEAN :
          WoInfo(ok) /\ UNCHANGED rest_wo
    \/ \E ok \in BOOLEAN :
          WoCalloc(ok) /\ UNCHANGED rest_wo
    \/ WoFail /\ UNCHANGED rest_wo
    \/ WoRetry /\ UNCHANGED rest_wo

SpecOpen == Init /\ [][NextOpen]_vars

\* xi_get_attrib on every node table and name atom of the bounds
NextAttrib ==
    \/ GaEnter /\ UNCHANGED rest_ga
    \/ GaLoop /\ UNCHANGED rest_ga

SpecAttrib == InitAttrib /\ [][NextAttrib]_vars

\* The same; a call that has been entered runs on until it returns.
SpecAttribLive == InitAttrib /\ [][NextAttrib]_vars /\ WF_vars(NextAttrib)

\* the debugger
rest_db == <<vars_pa, vars_ws, vars_wo, vars_ga, vars_nf, vars_zp, vars_rg>>

\* the callbacks of the engine, for handler calls on the instructions H
\* and frames for the instructions F, with global initializers as G has it
\* and with memory as M has it
DbgEngine(H, F, G, M) ==
    \/ \E inst \in H, glob \in G :
          DbgHandler(inst, glob) /\ UNCHANGED rest_db
    \/ \E inst \in F, glob \in G, memok \in M :
          DbgAddFrame(inst, glob, memok) /\ UNCHANGED rest_db
    \/ DbgDropFrame /\ UNCHANGED rest_db
    \/ \E ok \in BOOLEAN : DbgEnd(ok) /\ UNCHANGED rest_db

\* the two shells, given the command lines C
DbgShells(C) ==
    \/ \E c \in C, ok \in BOOLEAN : DbgTop(c, ok) /\ UNCHANGED rest_db
    \/ DbgTopEof /\ UNCHANGED rest_db
    \/ \E c \in C : DbgShell(c) /\ UNCHANGED rest_db
    \/ DbgShellEof /\ UNCHANGED rest_db

Yes(name) == [Cmd(name) EXCEPT !.yes = TRUE]
At(name, loc) == [Cmd(name) EXCEPT !.loc = loc]

\* stepping through a script, with a breakpoint to come back by
StepCmds == {Cmd("step"), Cmd("over"), Cmd("continue"), Cmd("break")}
StepInsts == {2, 4, 6}
StepFrames == {1}

NextStep ==
    DbgEngine(StepInsts, StepFrames, {FALSE}, {TRUE}) \/ DbgShells(StepCmds)

SpecStep == Init /\ [][NextStep]_vars

\* stepping over instructions
OverCmds == {Cmd("over"), Cmd("next"), Cmd("break")}
OverInsts == {2, 4}
OverFrames == {1, 3}

NextOver ==
    DbgEngine(OverInsts, OverFrames, {FALSE}, {TRUE}) \/ DbgShells(OverCmds)

SpecOver == Init /\ [][NextOver]_vars

\* running to the end of a template
FinishCmds ==
    {Cmd("finish"), Cmd("over"), At("break", LocLine(3)), Cmd("continue")}
FinishInsts == {2, 4}
FinishFrames == {1, 4}

NextFinish ==
    DbgEngine(FinishInsts, FinishFrames, {FALSE}, {TRUE})
        \/ DbgShells(FinishCmds)

SpecFinish == Init /\ [][NextFinish]_vars

\* setting and deleting breakpoints, and running up to a location; line 9
\* and the name 0 are not in the script
BreakLocs == {LocNone, LocLine(3), LocLine(9), LocName(1), LocName(0)}
BreakCmds ==
    {At("break", loc) : loc \in BreakLocs}
        \cup {[At("break", LocLine(2)) EXCEPT !.memok = FALSE]}
        \cup {At("continue", loc) : loc \in {LocNone, LocLine(3)}}
        \cup {[Cmd("delete") EXCEPT !.num = 1], Yes("delete"), Cmd("step")}
BreakInsts == {2, 4}
BreakFrames == {1}

NextBreak ==
    DbgEngine(BreakInsts, BreakFrames, {FALSE}, {TRUE})
        \/ DbgShells(BreakCmds)

SpecBreak == Init /\ [][NextBreak]_vars

\* running up to a location; line 4 holds a text node only
ContCmds ==
    {At("continue", loc) : loc \in {LocNone, LocLine(3), LocLine(4)}}
        \cup {Cmd("step"), Cmd("break")}
ContInsts == {2, 4, 5, 6}
ContFrames == {1}

NextCont ==
    DbgEngine(ContInsts, ContFrames, {FALSE}, {TRUE}) \/ DbgShells(ContCmds)

SpecCont == Init /\ [][NextCont]_vars

\* 'print' in the shell of the handler, with the callbacks it may lead to
ShellCmds == {Cmd("step"), Cmd("over")}
ShellInsts == {2, 4}
ShellFrames == {1}

NextShell ==
    \/ DbgEngine(ShellInsts, ShellFrames, {FALSE}, {TRUE})
    \/ DbgShells(ShellCmds)
    \/ DbgPrintBegin /\ UNCHANGED rest_db
    \/ \E inst \in ShellInsts, glob \in BOOLEAN :
          DbgPrintHandler(inst, glob) /\ UNCHANGED rest_db
    \/ \E inst \in ShellFrames, glob \in BOOLEAN, memok \in BOOLEAN :
          DbgPrintAddFrame(inst, glob, memok) /\ UNCHANGED rest_db
    \/ DbgPrintDropFrame /\ UNCHANGED rest_db
    \/ DbgPrintEnd /\ UNCHANGED rest_db

SpecShell == Init /\ [][NextShell]_vars

\* quitting and restarting a script that is being run
QuitCmds ==
    {Cmd("step"), Cmd("over"), Cmd("break"), Yes("quit"), Yes("run")}
QuitInsts == {2, 4}
QuitFrames == {1}

NextQuit ==
    DbgEngine(QuitInsts, QuitFrames, {FALSE}, {TRUE}) \/ DbgShells(QuitCmds)

SpecQuit == Init /\ [][NextQuit]_vars

\* setting and deleting breakpoints while the script is run, restarted and
\* reloaded; the frames are allocated with memory as it comes
RestartCmds ==
    {Cmd("step"), Cmd("continue"), Cmd("break"), At("break", LocLine(3)),
     [Cmd("delete") EXCEPT !.num = 1], Yes("run"), Yes("reload")}
RestartInsts == {2, 4}
RestartFrames == {1}

NextRestart ==
    DbgEngine(RestartInsts, RestartFrames, {FALSE}, BOOLEAN)
        \/ DbgShells(RestartCmds)

SpecRestart == Init /\ [][NextRestart]_vars

----------------------------------------------------------------------------
(* Claims about the fixed slot pool, checked under SpecPa *)

LiveAtoms == DOMAIN h_owned

\* C1: atom stability. Every atom handed out by allocate and not yet freed
\* still resolves to the address it resolved to when it was allocated, and
\* the record there still holds what its owner last wrote, whatever
\* allocations, frees of other atoms and chunk appends happened since; the
\* test's own pointers and do_dump see no bad magic, slot or value.
C1_AtomStability ==
    /\ \A a \in LiveAtoms :
          /\ pa_fixed_atom_addr(pfp, a) = h_owned[a].addr
          /\ pfp.mem[h_owned[a].addr] = h_owned[a].rec
    /\ \A s \in TestSlots :
          /\ do_dump(s) = {}
          /\ trec[s] # NullAddr =>
                pa_fixed_atom_addr(pfp, pfp.mem[trec[s]][2]) = trec[s]

\* C1 witness: an atom of the first chunk is still live after the chunk table
\* grew and after another atom was freed.
C1_Witness ==
    /\ Len(pfp.base) >= 2
    /\ t_last.op = "f" /\ t_last.atom # PA_NULL_ATOM
    /\ \E a \in LiveAtoms : ChunkOf(pfp, a) = 0 /\ a # t_last.atom

\* C2: the free-list chain and the live atoms are disjoint, no two test slots
\* hold the same record, and allocate never returns an atom that is live.
C2_FreeLiveDisjoint ==
    /\ [](/\ FreeChain(pfp) \cap LiveAtoms = {}
          /\ \A s1, s2 \in TestSlots :
                (s1 # s2 /\ trec[s1] # NullAddr) => trec[s1] # trec[s2])
    /\ [][(t_last'.op = "a" /\ t_last'.atom # PA_NULL_ATOM)
            => t_last'.atom \notin LiveAtoms]_vars

\* C2 witness: a freed atom sits on the free list while other atoms are live.
C2_Witness ==
    /\ t_last.op = "f" /\ t_last.atom \in FreeChain(pfp)
    /\ Cardinality(FreeChain(pfp)) >= 2
    /\ LiveAtoms # {}

\* C3: with max_atoms = N an allocation fails as Exhausted only when N atoms
\* are live (so N allocations succeed and the next one fails), never more
\* than N atoms are handed out, and after the failure every live atom still
\* resolves to its unchanged record.
C3_Exhaustion ==
    /\ Cardinality(LiveAtoms) <= TestMaxAtoms
    /\ (t_last.op = "a" /\ t_last.why = "Exhausted") =>
          /\ t_last.atom = PA_NULL_ATOM
          /\ Cardinality(LiveAtoms) = TestMaxAtoms
          /\ \A a \in LiveAtoms :
                /\ pa_fixed_atom_addr(pfp, a) = h_owned[a].addr
                /\ pfp.mem[h_owned[a].addr] = h_owned[a].rec
    /\ (t_last.op = "a" /\ Cardinality(LiveAtoms) < TestMaxAtoms
          /\ t_last.atom = PA_NULL_ATOM) => t_last.why = "CannotMap"

\* C3 witness: the (N+1)-th allocation has just failed with N atoms live.
C3_Witness ==
    /\ t_last.op = "a" /\ t_last.why = "Exhausted"
    /\ Cardinality(LiveAtoms) = TestMaxAtoms

\* the atoms of the chunks the pool has
ChunkAtoms(p) ==
    {a \in 1 .. p.max : pa_fixed_atom_addr(p, a) # NullAddr}

\* C16: an allocation that needs a new chunk and cannot map it returns the
\* null atom and leaves the pool (chunk table, free list, every record) and
\* the live atoms exactly as they were; in the state after such a failure an
\* allocation for which the chunk can be mapped returns an atom that is not
\* live, with the older chunks of the table unchanged.
C16_FailedGrowthAtomic ==
    /\ [][(t_last'.op = "a" /\ t_last'.why = "CannotMap") =>
             (/\ t_last'.atom = PA_NULL_ATOM
              /\ pfp' = pfp
              /\ h_owned' = h_owned)]_vars
    /\ []((t_last.op = "a" /\ t_last.why = "CannotMap") =>
             LET r == pa_fixed_alloc_atom(pfp, TRUE)
             IN  /\ r.why = "ok" /\ r.atom # PA_NULL_ATOM
                 /\ r.atom \notin LiveAtoms
                 /\ SubSeq(r.pool.base, 1, Len(pfp.base)) = pfp.base)

\* C16 witness: an allocation has just failed for want of a chunk while
\* atoms of an older chunk are live.
C16_Witness ==
    /\ t_last.op = "a" /\ t_last.why = "CannotMap"
    /\ Len(pfp.base) >= 1 /\ LiveAtoms # {}

\* C17: with an atom on the free list, allocate returns the head of the
\* list and appends no chunk; a chunk is appended only when the free list is
\* empty and every atom of the chunks there are is live; and the head of the
\* list after a free is the atom just freed.
C17_ReuseBeforeGrowth ==
    /\ [][t_last'.op = "a" =>
             (/\ pfp.free # PA_NULL_ATOM =>
                    /\ t_last'.atom = pfp.free
                    /\ pfp'.base = pfp.base /\ pfp'.brk = pfp.brk
              /\ pfp'.base # pfp.base =>
                    /\ pfp.free = PA_NULL_ATOM
                    /\ ChunkAtoms(pfp) \subseteq LiveAtoms)]_vars
    /\ []((t_last.op = "f" /\ t_last.atom # PA_NULL_ATOM) =>
             pfp.free = t_last.atom)

\* C17 witness: atom 1 was freed and has been allocated again while a later
\* atom is live and the free list still holds an atom behind it.
C17_Witness ==
    /\ t_last.op = "a" /\ t_last.atom = 1
    /\ \E a \in LiveAtoms : a > 1
    /\ pfp.free > 1

----------------------------------------------------------------------------
(* Claims about name and namespace interning *)

\* C4 (as claimed): every create call for one text returns the same atom,
\* and a lookup-only call returns the null atom exactly when no earlier
\* create call returned an atom for the text, and that atom otherwise.
\* (Create calls that return the null atom for lack of room are left out of
\* h_names, so they do not count against the claim here.)
C4_InternIdempotent ==
    /\ \A e1, e2 \in h_names : e1[1] = e2[1] => e1[2] = e2[2]
    /\ (w_last.op = "name" /\ ~w_last.createp) =>
          /\ w_last.atom = PA_NULL_ATOM
                <=> ~(\E e \in h_names : e[1] = w_last.data)
          /\ w_last.atom # PA_NULL_ATOM
                => <<w_last.data, w_last.atom>> \in h_names

\* C5 (as claimed): two successful create calls of xi_ns_find return the
\* same namespace-map atom if and only if their (prefix, uri) pairs are
\* equal as texts (a NULL pointer standing for the empty text).
C5_NsPairDistinct ==
    \A e1, e2 \in h_ns :
        (e1[3] = e2[3]) <=> (e1[1] = e2[1] /\ e1[2] = e2[2])

\* C10 (as claimed): when the create path stored the text and pa_pat_add then
\* reported a duplicate key, the call returns the atom of the entry that is
\* in the names index, not the atom of the string just stored.
C10_DuplicateFallback ==
    (w_last.op = "name" /\ w_last.add = "dup") =>
        w_last.atom = xi_namepool_lookup(xwp, w_last.data)

\* C11 (as claimed): when xi_ns_find with create allocated a pair record and
\* pa_pat_add then reported a duplicate key, the call returns the atom of
\* the entry the namespace index holds for the pair, not the null atom.
C11_NsDuplicateFallback ==
    (n_last.op = "ns" /\ n_last.createp /\ n_last.add = "dup") =>
        /\ n_last.atom # PA_NULL_ATOM
        /\ <<NsText(n_last.prefix), NsText(n_last.uri), n_last.atom>> \in h_ns

\* C12: a xi_namepool_atom call without create for a text the names index
\* does not hold returns the null atom, logs nothing, and leaves the string
\* pool and the names index (the whole workspace) as they were.
C12_LookupOnly ==
    [][(/\ w_last'.op = "name" /\ ~w_last'.createp
        /\ xi_namepool_lookup(xwp, w_last'.data) = PA_NULL_ATOM)
       => (/\ w_last'.atom = PA_NULL_ATOM
           /\ w_last'.log = ""
           /\ xwp' = xwp)]_vars

\* C12 witness: "a" was looked up without create and not found while "aa"
\* is interned and the string pool still has room.
C12_Witness ==
    /\ w_last.op = "name" /\ ~w_last.createp
    /\ w_last.data = <<97>> /\ w_last.atom = PA_NULL_ATOM
    /\ xwp.xw_names.strs = <<(<<97, 97>>)>>
    /\ Cardinality(xwp.xw_names_index.nodes) = 1

\* the pair record a namespace-map atom stands for
NsRecord(w, atom) == w.xw_ns_map.mem[pa_fixed_atom_addr(w.xw_ns_map, atom)]

C14_NullAtomNeverIssued ==
    /\ PA_NULL_ATOM \notin LiveAtoms
    /\ \A s \in TestSlots :
          trec[s] # NullAddr => pfp.mem[trec[s]][2] # PA_NULL_ATOM
    /\ pfp.free # PA_NULL_ATOM => pa_fixed_atom_addr(pfp, pfp.free) # NullAddr
    /\ (t_last.op = "a" /\ t_last.atom = PA_NULL_ATOM) =>
          /\ t_last.why \in {"Exhausted", "CannotMap"}
          /\ trec[t_last.slot] = NullAddr
    /\ \A n \in xwp.xw_names_index.nodes \cup xwp.xw_ns_map_index.nodes :
          n.data # PA_NULL_ATOM
    /\ w_last.add = "ok" => w_last.atom # PA_NULL_ATOM
    /\ n_last.add = "ok" => n_last.atom # PA_NULL_ATOM
    /\ (w_last.op = "name" /\ w_last.atom = PA_NULL_ATOM) =>
          \/ ~w_last.createp
              /\ xi_namepool_lookup(xwp, w_last.data) = PA_NULL_ATOM
          \/ w_last.createp /\ w_last.log = "namepool create key failed"
    /\ (n_last.op = "ns" /\ n_last.atom = PA_NULL_ATOM) =>
          xi_ns_lookup(xwp, <<PA_NULL_ATOM, PA_NULL_ATOM>>) = PA_NULL_ATOM
          \/ NsText(n_last.prefix) # <<>> \/ NsText(n_last.uri) # <<>>

\* C14 witness (fixed pool): the first allocation of a pool has been made
\* and written, so the lowest atom there is has been issued.
C14_Witness ==
    /\ t_last.op = "a" /\ t_last.atom = 1
    /\ Len(pfp.base) = 1 /\ LiveAtoms = {1}

\* the calls that returned an atom: the creating calls so far and the last
\* call
InternCalls ==
    h_names \cup (IF w_last.op = "name" /\ w_last.atom # PA_NULL_ATOM
                  THEN {<<w_last.data, w_last.atom>>} ELSE {})

\* two calls that returned the same atom had the same text
InternInjective ==
    \A p, q \in InternCalls : p[2] = q[2] => p[1] = q[1]

\* the atom a call returned resolves, in the string pool, to the text of
\* the call
InternRoundTrip ==
    \A p \in InternCalls :
        /\ p[2] \in 1 .. Len(xwp.xw_names.strs)
        /\ xwp.xw_names.strs[p[2]] = p[1]

\* C31: name interning is injective and round-trips. In any sequence of
\* xi_namepool_atom calls two calls return the same non-null atom only if
\* their texts are byte-identical, and resolving a returned atom in the
\* interned string pool yields exactly the text it was interned with.
C31_InternInjective == InternInjective /\ InternRoundTrip

\* C19 (as claimed): a xi_namepool_atom call for a text whose length plus
\* one exceeds PA_PAT_MAXKEY (or does not fit 16 bits) returns the null atom
\* and interns nothing: no stored string is that long; and the key length a
\* call looks up or inserts is the text's byte length plus one.
C19_LongNamesRejected ==
    /\ (w_last.op = "name" /\ Len(w_last.data) + 1 > PA_PAT_MAXKEY) =>
          w_last.atom = PA_NULL_ATOM
    /\ \A a \in 1 .. Len(xwp.xw_names.strs) :
          Len(xwp.xw_names.strs[a]) + 1 <= PA_PAT_MAXKEY
    /\ \A n \in xwp.xw_names_index.nodes :
          n.len = Len(xwp.xw_names.strs[n.data]) + 1
    /\ w_last.op = "name" => name_len(w_last.data) = Len(w_last.data) + 1

\* C20 (as claimed): the interning routines tell a key that is already
\* present from an index that could not allocate a node: xi_namepool_atom
\* and xi_ns_find take the duplicate-key path (and log a duplicate key) only
\* when pa_pat_add failed because the key was present.
C20_DuplicateDistinguished ==
    /\ (w_last.op = "name" /\ w_last.log = "duplicate key") =>
          w_last.add = "dup"
    /\ (n_last.op = "ns"
          /\ n_last.log = "duplicate key failure for namespace") =>
          n_last.add = "dup"

\* the namespace-map pool has no free record and cannot grow
NsMapFull(w) ==
    /\ w.xw_ns_map.free = PA_NULL_ATOM
    /\ Len(w.xw_ns_map.base) * ChunkSize(w.xw_ns_map) > w.xw_ns_map.max

\* C21: exhaustion comes back as the null atom. A create call of
\* xi_namepool_atom for a text the names index does not hold, made when the
\* string pool is full or could not get room (which the call logs), returns
\* the null atom, leaves the names index as it was and every stored string
\* in place. A create call of xi_ns_find that could not get a pair record
\* (which it logs) returns the null atom; with the namespace-map pool full a
\* call returns the null atom or the atom of an entry the index held before;
\* in both cases the namespace index is as it was, and the records of the
\* atoms indexed before and the strings stored before are unchanged.
C21_ExhaustionSurfaced ==
    [][/\ (/\ w_last'.op = "name" /\ w_last'.createp
           /\ xi_namepool_lookup(xwp, w_last'.data) = PA_NULL_ATOM
           /\ \/ Len(xwp.xw_names.strs) >= xwp.xw_names.max
              \/ w_last'.log = "namepool create key failed")
          => (/\ w_last'.atom = PA_NULL_ATOM
              /\ xwp'.xw_names_index = xwp.xw_names_index
              /\ xwp'.xw_names.strs = xwp.xw_names.strs
              /\ h_names' = h_names)
       /\ (/\ n_last'.op = "ns" /\ n_last'.createp
           /\ \/ NsMapFull(xwp)
              \/ n_last'.log = "namespace create key failed")
          => (/\ \/ n_last'.atom = PA_NULL_ATOM
                 \/ /\ NsMapFull(xwp)
                    /\ n_last'.log = ""
                    /\ \E n \in xwp.xw_ns_map_index.nodes :
                          n.data = n_last'.atom
              /\ xwp'.xw_ns_map_index = xwp.xw_ns_map_index
              /\ \A n \in xwp.xw_ns_map_index.nodes :
                    NsRecord(xwp', n.data) = NsRecord(xwp, n.data)
              /\ SubSeq(xwp'.xw_names.strs, 1, Len(xwp.xw_names.strs))
                    = xwp.xw_names.strs
              /\ h_ns' \subseteq h_ns \cup
                    {e \in h_ns' : \E n \in xwp.xw_ns_map_index.nodes :
                                      n.data = e[3]})]_vars

\* C21 witness: with two strings stored and indexed the string pool is
\* full; a create call for a third text has returned the null atom and
\* logged the failure, the pool and the index still holding the two.
C21_Witness ==
    /\ w_last.op = "name" /\ w_last.createp
    /\ w_last.atom = PA_NULL_ATOM
    /\ w_last.log = "namepool create key failed"
    /\ Len(xwp.xw_names.strs) = xwp.xw_names.max
    /\ Cardinality(xwp.xw_names_index.nodes) = Len(xwp.xw_names.strs)
    /\ xi_namepool_lookup(xwp, w_last.data) = PA_NULL_ATOM

\* C30 (as claimed): a xi_ns_find call without create changes no pool: the
\* string pool, the names index, the namespace map and the namespace index
\* are after the call what they were before it, whether or not the pair or
\* its prefix and uri strings were known.
C30_NsLookupReadOnly ==
    [][(n_last'.op = "ns" /\ ~n_last'.createp) => xwp' = xwp]_vars

\* the records of the namespace-map pool that are allocated: the atoms of its
\* chunks that are not on its free list
NsMapLive == ChunkAtoms(xwp.xw_ns_map) \ FreeChain(xwp.xw_ns_map)

\* the index entries whose data atom is the record
NsIndexOf(atom) == {n \in xwp.xw_ns_map_index.nodes : n.data = atom}

\* C32: after any sequence of xi_ns_find calls, failed record allocations
\* and failed inserts included, every live record of the namespace-map pool
\* is the data atom of exactly one entry of the namespace index and every
\* entry of the index refers to a live record: the record of a failed insert
\* is free again.
C32_NsMapInStep ==
    /\ \A atom \in NsMapLive : Cardinality(NsIndexOf(atom)) = 1
    /\ \A n \in xwp.xw_ns_map_index.nodes : n.data \in NsMapLive

\* a call whose insert failed has returned, its record is on the free list
\* again and the record of an earlier call is live and indexed
C32_Witness ==
    /\ n_last.op = "ns"
    /\ n_last.atom = PA_NULL_ATOM
    /\ n_last.log = "duplicate key failure for namespace"
    /\ FreeChain(xwp.xw_ns_map) # {}
    /\ NsMapLive # {}
    /\ xwp.xw_ns_map_index.nodes # {}

----------------------------------------------------------------------------
(* Claims about the segment names, checked under SpecRegion *)

\* C18 (as claimed): no two segments of the region have the same name: the
\* names derived from one base name are pairwise distinct, and a name
\* derived from one base name is never a name derived from another.
C18_SegmentNamesDistinct ==
    \A e1, e2 \in region :
        e1[3] = e2[3] => (e1[1] = e2[1] /\ e1[2] = e2[2])

----------------------------------------------------------------------------
(* Claims about the zero-on-allocate pool, checked under SpecZp *)

\* C15: in the nodeset-chunks pool, for which xi_workspace_open sets
\* PFF_INIT_ZERO, every record an allocation returns reads as all zero
\* before its first write, whether its chunk was just appended or the atom
\* was freed earlier with content and a free-list link in its record.
C15_ZeroOnAllocate ==
    (zp.last.op = "alloc" /\ zp.last.atom # PA_NULL_ATOM) =>
        zp.last.rec = ZeroRec(ZpWidth)

\* C15 witness: the allocation reused a freed atom whose record held a
\* free-list link in its first word and the user's value in the next.
C15_Witness ==
    /\ zp.last.op = "alloc" /\ zp.last.atom # PA_NULL_ATOM
    /\ zp.last.stale # <<>>
    /\ zp.last.stale[1] \notin {0, ZpValue}
    /\ zp.last.stale[2] = ZpValue

----------------------------------------------------------------------------
(* Claims about xi_workspace_open, checked under SpecOpen *)

\* C6: no child is ever closed more often than it was opened, and when
\* xi_workspace_open returns after a failed step it returns NULL with every
\* child it (or xi_namepool_open / xi_ns_open) opened closed exactly once and
\* none left open; a successful call returns the workspace with all eight
\* children open.
C6_OpenRollback ==
    /\ \A c \in Children : wo.closes[c] <= wo.opens[c] /\ wo.opens[c] <= 1
    /\ wo.pc = "ret_null" =>
          /\ wo.ret = "NULL"
          /\ wo.open = {}
          /\ \A c \in Children : wo.closes[c] = wo.opens[c]
    /\ wo.pc = "done" => wo.ret = "workp" /\ wo.open = Children

\* C6 witness: the open failed after several children were opened (one of
\* them inside xi_ns_open, whose index open failed) and has returned.
C6_Witness ==
    /\ wo.pc = "ret_null"
    /\ wo.opens["names.index"] = 1
    /\ wo.opens["namespaces.data"] = 1
    /\ wo.opens["namespaces.index"] = 0

----------------------------------------------------------------------------
(* Claims about xi_get_attrib, checked under SpecAttrib *)

\* the records after the starting node, in xn_next order
RECURSIVE ChainFrom(_, _)
ChainFrom(atom, n) ==
    IF atom = PA_NULL_ATOM \/ atom \notin DOMAIN nodes \/ n = 0 THEN <<>>
    ELSE <<atom>> \o ChainFrom(nodes[atom].xn_next, n - 1)

Chain == ChainFrom(nodes[1].xn_contents, MaxChain + 1)

\* the place in the chain of the first record that is not a child any more
Boundary ==
    LET ends == {i \in 1 .. Len(Chain) :
                    nodes[Chain[i]].xn_depth <= nodes[1].xn_depth}
    IN  IF ends = {} THEN Len(Chain) + 1
        ELSE CHOOSE i \in ends : \A j \in ends : i <= j

\* the places before the boundary of the attributes named name_atom
Matches ==
    {i \in 1 .. Boundary - 1 :
        /\ nodes[Chain[i]].xn_type = "ATTRIB"
        /\ nodes[Chain[i]].xn_name = ga.name_atom}

\* C7: the walk visits the chain from the first child in order and goes no
\* further than the first record whose depth is <= the starting node's; what
\* it returns is never the content of a record at or after that boundary.
C7_AttribBoundary ==
    /\ Len(ga.visited) <= Min(Boundary, Len(Chain))
    /\ \A i \in 1 .. Len(ga.visited) : ga.visited[i] = Chain[i]
    /\ ga.pc = "done" =>
          \A i \in Boundary .. Len(Chain) :
              ga.ret # nodes[Chain[i]].xn_contents

\* C7 witness: the call has returned NULL after stopping at a boundary
\* record that is itself an attribute with the requested name.
C7_Witness ==
    /\ ga.pc = "done" /\ ga.ret = PA_NULL_ATOM
    /\ Boundary <= Len(Chain)
    /\ Len(ga.visited) = Boundary
    /\ nodes[Chain[Boundary]].xn_type = "ATTRIB"
    /\ nodes[Chain[Boundary]].xn_name = ga.name_atom

\* C8: for a node flagged as having attributes the call returns the content
\* atom of the first attribute before the boundary whose name atom is
\* name_atom, and the null atom when there is none; a record that is not an
\* attribute never matches.
C8_AttribResult ==
    (ga.pc = "done" /\ "ATTRIBS_PRESENT" \in nodes[1].xn_flags) =>
        ga.ret = IF Matches = {} THEN PA_NULL_ATOM
                 ELSE nodes[Chain[CHOOSE i \in Matches :
                                     \A j \in Matches : i <= j]].xn_contents

\* C8 witness: an element child named name_atom comes first and the
\* attribute of that name after it is the one returned.
C8_Witness ==
    /\ ga.pc = "done" /\ "ATTRIBS_PRESENT" \in nodes[1].xn_flags
    /\ Boundary > 2
    /\ nodes[Chain[1]].xn_type = "ELT"
    /\ nodes[Chain[1]].xn_name = ga.name_atom
    /\ 2 \in Matches
    /\ ga.ret = nodes[Chain[2]].xn_contents

\* C22: the chains at hand are finite, and on each of them the call
\* returns; on its way it visits no record twice, none that is not on the
\* chain from the first child, none after the boundary, and so at most as
\* many records as the chain has up to the boundary.
C22_BoundedScan ==
    /\ <>(ga.pc = "done")
    /\ [](/\ \A i, j \in 1 .. Len(ga.visited) :
                ga.visited[i] = ga.visited[j] => i = j
          /\ \A i \in 1 .. Len(ga.visited) :
                \E k \in 1 .. Min(Boundary, Len(Chain)) :
                    ga.visited[i] = Chain[k]
          /\ Len(ga.visited) <= Min(Boundary, Len(Chain)))

\* C22 witness: the call has returned without a match after visiting every
\* record of a chain of MaxChain records, none of them a boundary.
C22_Witness ==
    /\ ga.pc = "done" /\ ga.ret = PA_NULL_ATOM
    /\ Len(Chain) = MaxChain /\ Boundary = Len(Chain) + 1
    /\ Len(ga.visited) = Len(Chain)
    /\ "ATTRIBS_PRESENT" \in nodes[1].xn_flags

\* C9: for a starting node without the attributes-present flag the call
\* returns the null atom and visits no record of the chain.
C9_NoAttribsShortCircuit ==
    (ga.pc # "idle" /\ "ATTRIBS_PRESENT" \notin nodes[1].xn_flags) =>
        /\ ga.pc \in {"enter", "done"}
        /\ ga.visited = <<>>
        /\ ga.ret = PA_NULL_ATOM

\* C9 witness: the call has returned for an unflagged node whose first child
\* is an attribute with the requested name.
C9_Witness ==
    /\ ga.pc = "done" /\ "ATTRIBS_PRESENT" \notin nodes[1].xn_flags
    /\ 1 \in Matches

----------------------------------------------------------------------------
(* Claims about the debugger *)

\* the last callback was a call of the handler that followed the command
\* kind, given at an instruction of another line, for an instruction that
\* is no text
HandlerAfter(kind) ==
    /\ dh.inv.n = 1
    /\ dh.inv.pend = kind
    /\ inst_type[dh.inv.inst] # "text"

\* C23: debugger 'step'. After a step command given while the script runs
\* the handler returns to the engine, and the shell is entered at the next
\* call of the handler for a non-text instruction that is not on the source
\* line of the instruction just stopped at.
C23_Step ==
    /\ (dh.pend = "step" /\ dh.fresh) => eng.pc = "run"
    /\ (HandlerAfter("step")
         /\ xmlGetLineNo(dh.inv.inst) # xmlGetLineNo(dh.inv.at))
            => dh.inv.shell

\* inst is x or lies inside x
RECURSIVE Within(_, _)
Within(inst, x) ==
    IF inst = DNULL THEN FALSE
    ELSE IF inst = x THEN TRUE
    ELSE Within(inst_parent[inst], x)

\* an 'over' (or a 'next' on a call-template) marks the first frame pushed
\* that is no with-param frame
OverMarks == dh.add.first => dh.add.marked

\* after the marked frame is popped, the next call of the handler for a
\* non-text instruction enters the shell
OverStopsAfterPop ==
    (HandlerAfter("over") /\ dh.inv.popped) => dh.inv.shell

\* when the instruction pushed no frame, the first call of the handler for
\* a non-text instruction outside it, on another line, enters the shell
OverStopsNoFrame ==
    (HandlerAfter("over") /\ ~dh.inv.pushed
     /\ ~Within(dh.inv.inst, dh.inv.at)
     /\ xmlGetLineNo(dh.inv.inst) # xmlGetLineNo(dh.inv.at))
        => dh.inv.shell

\* C24: debugger 'over'. After an over command (or 'next' on a
\* call-template) the first non-with-param frame pushed is marked
\* stop-when-pop, and the shell is entered at the first call of the handler
\* after the current instruction and everything it invokes has completed,
\* also when the current instruction pushes no stack frame.
C24_Over == OverMarks /\ OverStopsAfterPop /\ OverStopsNoFrame

\* 'finish' marks the frame to wait for and the handler returns to the
\* engine with the status CONT
FinishMarks ==
    (dh.pend = "finish" /\ dh.fresh) =>
        /\ dh.mark = FinishTarget(dbg.stack)
        /\ dh.mark # 0
        /\ "STOPWHENPOP" \in dbg.stack[dh.mark].st_flags
        /\ dbg.status = "CONT"
        /\ eng.pc = "run"

\* popping that frame sets the status to INIT
FinishPopInit ==
    (dh.pend = "finish" /\ ~dh.popped /\ dh'.pend = "finish" /\ dh'.popped)
        => dbg'.status = "INIT"

\* the next call of the handler for a non-text instruction after the frame
\* is popped enters the shell
FinishStopsAfterPop ==
    (HandlerAfter("finish") /\ dh.inv.popped) => dh.inv.shell

\* before the frame is popped only a breakpoint makes the handler enter the
\* shell
FinishNotBefore ==
    (HandlerAfter("finish") /\ ~dh.inv.popped /\ dh.inv.shell)
        => dh.inv.hit

\* C25: debugger 'finish'. The command marks the innermost stack frame
\* whose instruction is an xsl:template (the outermost frame when there is
\* none) as stop-when-pop and continues; when dropFrame pops that frame the
\* status becomes INIT, so the shell is entered at the next call of the
\* handler after the current template returns, and not before unless a
\* breakpoint is reached.
C25_Finish ==
    /\ [](FinishMarks /\ FinishStopsAfterPop /\ FinishNotBefore)
    /\ [][FinishPopInit]_vars

\* the last command was a 'break' on a location the script has, and there
\* was memory for a breakpoint
BreakGiven == dh.brk.n = 1 /\ dh.brk.node # DNULL /\ dh.brk.memok

\* it added one breakpoint when the instruction had none
BreakAdds ==
    (BreakGiven /\ ~dh.brk.had) =>
        dh.brk.added = 1 /\ dh.brk.out = "Breakpoint"

\* it reported a duplicate and added nothing when the instruction had one,
\* and only then
BreakDuplicate ==
    BreakGiven =>
        /\ dh.brk.had => dh.brk.out = "Duplicate breakpoint"
        /\ dh.brk.out = "Duplicate breakpoint" =>
                dh.brk.had /\ dh.brk.added = 0

\* no two breakpoints are on the same instruction
BreakUnique ==
    \A i, j \in 1 .. Len(dbg.bps) :
        dbg.bps[i].dbp_inst = dbg.bps[j].dbp_inst => i = j

\* it changed nothing but the list of breakpoints and their numbering
BreakOnly == BreakGiven => dh.brk.other

\* C27: debugger 'break'. On a location that resolves the command adds
\* exactly one breakpoint when the instruction has none, and reports
\* "Duplicate breakpoint" and adds nothing only when it has one; so no two
\* breakpoints of the list are on the same instruction, and the command
\* changes nothing else, in particular not ds_stop_at.
C27_Break == BreakAdds /\ BreakDuplicate /\ BreakUnique /\ BreakOnly

\* the last callback was a call of the handler, in a script that has not
\* been quit, for the instruction recorded in ds_stop_at
ContReached ==
    /\ dh.inv.n = 1
    /\ ~dh.inv.quit
    /\ dh.inv.stop # DNULL
    /\ dh.inv.inst = dh.inv.stop

\* such a call enters the shell and clears ds_stop_at
ContStops == ContReached => (dh.inv.shell /\ dh.inv.stopped = DNULL)

\* the same, for the calls that get past the returns of lines 1723-1753
ContStopsAtCheck ==
    (ContReached /\ ~dh.inv.early) =>
        (dh.inv.shell /\ dh.inv.stopped = DNULL)

\* a call that finds a stop point or a breakpoint on its instruction, and
\* not ds_stop_at, finds a breakpoint
ContOnce ==
    (dh.inv.n = 1 /\ dh.inv.hit /\ dh.inv.stop # dh.inv.inst) =>
        \E i \in 1 .. Len(dbg.bps) : dbg.bps[i].dbp_inst = dh.inv.inst

\* C26: debugger 'continue <loc>'. The stop point is one-time: the first
\* time the handler reaches the instruction recorded in ds_stop_at the
\* shell is entered and ds_stop_at is cleared, so later visits to the
\* instruction do not stop unless a breakpoint is set there.
C26_Continue == ContStops /\ ContOnce

\* a step made while DSF_INSHELL is set and the command goes on is a
\* callback: it leaves the debugger's state, stack and status as they are
ShellCallbackKeeps ==
    ("INSHELL" \in dbg.ds.ds_flags /\ eng.pc = "print"
     /\ eng'.pc = "print")
        => dbg' = dbg

\* addFrame called while DSF_INSHELL is set returns 0
ShellAddFrameZero ==
    (eng.pc = "print" /\ dh.add.n = 1) => dh.add.ret = 0

\* DSF_INSHELL is set while the command runs and clear when
\* slaxDebugShell has returned
ShellFlagCleared == ("INSHELL" \in dbg.ds.ds_flags) <=> (eng.pc = "print")

\* C28: the debugger is not re-entrant. While DSF_INSHELL is set (a shell
\* command such as 'print' is running) the handler, addFrame and dropFrame
\* callbacks return without changing the debugger state, the frame stack
\* or the debugger status, addFrame returns 0, and DSF_INSHELL is clear
\* again when slaxDebugShell returns.
C28_NotReentrant ==
    /\ [](ShellAddFrameZero /\ ShellFlagCleared)
    /\ [][ShellCallbackKeeps]_vars

\* C28 witness: with a frame on the stack, a 'print' has led to calls of
\* addFrame and dropFrame: the last was dropFrame, the addFrame before it
\* returned 0, and the frame is still there.
C28_Witness ==
    /\ eng.pc = "print"
    /\ dh.cb = "dropFrame"
    /\ dh.add.n = 1 /\ dh.add.ret = 0
    /\ Len(dbg.stack) = 1
    /\ dbg.status = "INIT"
    /\ dbg.ds.ds_inst = 4

\* a call of the handler made with the status QUIT or DONE returns without
\* entering the shell and leaves the debugger as it is
QuitReturns ==
    (dh.inv.n = 1 /\ dh.inv.status \in {"QUIT", "DONE"}) =>
        (~dh.inv.shell /\ dh.inv.same)

\* C29: the debugger after quit. Once the debugger status is QUIT or DONE,
\* every call of the handler returns without entering the shell and without
\* changing the recorded state (ds_inst, ds_node, ds_template, ds_ctxt,
\* flags), however long the engine keeps calling it.
C29_AfterQuit ==
    (dh.inv.n = 1 /\ dh.inv.quit) => (~dh.inv.shell /\ dh.inv.same)

\* C33: in every reachable state ds_stackdepth is the number of frames on
\* slaxDebugStack, across addFrame, dropFrame, the restart of the script and
\* its reload.
C33_StackDepth == dbg.ds.ds_stackdepth = Len(dbg.stack)

\* the script has been restarted with a breakpoint kept (only
\* slaxDebugClearStacktrace leaves a breakpoint with the number counter at
\* 0) and the engine is in a template of the new run
C33_Witness ==
    /\ eng.pc = "run"
    /\ eng.open = <<1>>
    /\ Len(dbg.stack) = 1
    /\ dbg.ds.ds_stackdepth = 1
    /\ dbg.bps # <<>>
    /\ dbg.bpnum = 0

\* C34 (as claimed): after any sequence of break, delete, run and reload
\* commands no two breakpoints of the list carry the same dbp_num.
C34_NumbersUnique ==
    \A i, j \in 1 .. Len(dbg.bps) :
        dbg.bps[i].dbp_num = dbg.bps[j].dbp_num => i = j

====
